---- MODULE Spec2Model ----
(***************************************************************************)
(* Provider adapters of Toonflow-app: image and video dispatchers, the     *)
(* ModelScope and Zhipu adapters and the polling helper they share.        *)
(* One adapter call is modelled at a time (the calls share no state).      *)
(* JavaScript strings are sequences of one-character strings.              *)
(***************************************************************************)
EXTENDS Integers, Sequences, FiniteSets, TLC

\* ------------------------------------------------------------------------
\* Strings
\* ------------------------------------------------------------------------

\* The JavaScript value undefined (an absent field); no string equals it.
Undefined == << "undefined" >>

S_undefined == << "u","n","d","e","f","i","n","e","d" >>

\* `${x}` : template-literal interpolation of a possibly absent string.
Interp(s) == IF s = Undefined THEN S_undefined ELSE s

\* !x for a possibly absent string.
Falsy(s) == s = Undefined \/ s = << >>

UpperLetters ==
  << "A","B","C","D","E","F","G","H","I","J","K","L","M",
     "N","O","P","Q","R","S","T","U","V","W","X","Y","Z" >>

LowerLetters ==
  << "a","b","c","d","e","f","g","h","i","j","k","l","m",
     "n","o","p","q","r","s","t","u","v","w","x","y","z" >>

LowerChar(c) ==
  IF \E i \in 1..26 : UpperLetters[i] = c
  THEN LowerLetters[CHOOSE i \in 1..26 : UpperLetters[i] = c]
  ELSE c

\* String.prototype.toLowerCase
toLowerCase(s) == [i \in 1..Len(s) |-> LowerChar(s[i])]

\* String.prototype.includes
includes(s, sub) ==
  \E i \in 0..(Len(s) - Len(sub)) : SubSeq(s, i + 1, i + Len(sub)) = sub

\* String.prototype.startsWith
startsWith(s, pre) == Len(s) >= Len(pre) /\ SubSeq(s, 1, Len(pre)) = pre

\* \s of a regular expression
IsSpace(c) == c \in {" ", "\t", "\n"}

\* number of leading whitespace characters of s
LeadingSpaces(s) ==
  IF \A i \in 1..Len(s) : IsSpace(s[i]) THEN Len(s)
  ELSE (CHOOSE i \in 1..Len(s) :
          ~IsSpace(s[i]) /\ \A j \in 1..(i - 1) : IsSpace(s[j])) - 1

\* number of trailing whitespace characters of s
TrailingSpaces(s) ==
  IF \A i \in 1..Len(s) : IsSpace(s[i]) THEN Len(s)
  ELSE Len(s) - (CHOOSE i \in 1..Len(s) :
          ~IsSpace(s[i]) /\ \A j \in (i + 1)..Len(s) : IsSpace(s[j]))

\* String.prototype.trim
trim(s) ==
  IF LeadingSpaces(s) = Len(s) THEN << >>
  ELSE SubSeq(s, LeadingSpaces(s) + 1, Len(s) - TrailingSpaces(s))

S_bearer == << "b","e","a","r","e","r" >>

\* s.replace(/^Bearer\s+/i, "")
replaceBearer(s) ==
  IF Len(s) >= 7 /\ toLowerCase(SubSeq(s, 1, 6)) = S_bearer /\ IsSpace(s[7])
  THEN LET rest == SubSeq(s, 7, Len(s))
       IN  SubSeq(rest, LeadingSpaces(rest) + 1, Len(rest))
  ELSE s

\* config.apiKey.replace(/^Bearer\s+/i, "").trim()
cleanApiKey(k) == trim(replaceBearer(k))

\* s.replace(/\/+$/, "")
stripTrailingSlashes(s) ==
  IF \A i \in 1..Len(s) : s[i] = "/" THEN << >>
  ELSE SubSeq(s, 1, CHOOSE i \in 1..Len(s) :
                      s[i] # "/" /\ \A j \in (i + 1)..Len(s) : s[j] = "/")

S_Bearer_ == << "B","e","a","r","e","r"," " >>

\* `Bearer ${k}`
BearerHeader(k) == S_Bearer_ \o Interp(k)

\* ------------------------------------------------------------------------
\* Buffer.from(x).toString("base64")
\* ------------------------------------------------------------------------

\* the printable ASCII characters, from code 32 (space) to code 126; the
\* back quote (code 96) cannot be written in a string and is spelled out
AsciiPrintable ==
  << " ","!","\"","#","$","%","&","'","(",")","*","+",",","-",".","/",
     "0","1","2","3","4","5","6","7","8","9",":",";","<","=",">","?",
     "@","A","B","C","D","E","F","G","H","I","J","K","L","M","N","O",
     "P","Q","R","S","T","U","V","W","X","Y","Z","[","\\","]","^","_",
     "backquote","a","b","c","d","e","f","g","h","i","j","k","l","m","n","o",
     "p","q","r","s","t","u","v","w","x","y","z","{","|","}","~" >>

\* the base64 alphabet
Base64Alphabet ==
  << "A","B","C","D","E","F","G","H","I","J","K","L","M","N","O","P",
     "Q","R","S","T","U","V","W","X","Y","Z","a","b","c","d","e","f",
     "g","h","i","j","k","l","m","n","o","p","q","r","s","t","u","v",
     "w","x","y","z","0","1","2","3","4","5","6","7","8","9","+","/" >>

\* the byte of an ASCII character
CharCode(c) ==
  IF c = "\n" THEN 10
  ELSE 31 + (CHOOSE k \in 1..Len(AsciiPrintable) : AsciiPrintable[k] = c)

Base64Digit(n) == Base64Alphabet[n + 1]

\* the four base64 characters of one, two or three bytes
Base64Group(bytes) ==
  LET b1 == bytes[1]
      b2 == IF Len(bytes) >= 2 THEN bytes[2] ELSE 0
      b3 == IF Len(bytes) >= 3 THEN bytes[3] ELSE 0
      n == b1 * 65536 + b2 * 256 + b3
  IN  << Base64Digit(n \div 262144),
         Base64Digit((n \div 4096) % 64),
         IF Len(bytes) >= 2 THEN Base64Digit((n \div 64) % 64) ELSE "=",
         IF Len(bytes) >= 3 THEN Base64Digit(n % 64) ELSE "=" >>

RECURSIVE Base64Bytes(_)
Base64Bytes(bytes) ==
  IF Len(bytes) = 0 THEN << >>
  ELSE IF Len(bytes) <= 3 THEN Base64Group(bytes)
  ELSE Base64Group(SubSeq(bytes, 1, 3))
         \o Base64Bytes(SubSeq(bytes, 4, Len(bytes)))

\* Buffer.from(s).toString("base64") for an ASCII string s
toBase64(s) == Base64Bytes([k \in 1..Len(s) |-> CharCode(s[k])])

\* the character of an ASCII byte
FromCharCode(b) == IF b = 10 THEN "\n" ELSE AsciiPrintable[b - 31]

Base64Value(c) ==
  IF c = "=" THEN 0
  ELSE (CHOOSE k \in 1..64 : Base64Alphabet[k] = c) - 1

\* the one, two or three characters of four base64 characters
FromBase64Group(g) ==
  LET n == Base64Value(g[1]) * 262144 + Base64Value(g[2]) * 4096
             + Base64Value(g[3]) * 64 + Base64Value(g[4])
      bytes == << n \div 65536, (n \div 256) % 256, n % 256 >>
      pad == IF g[3] = "=" THEN 2 ELSE IF g[4] = "=" THEN 1 ELSE 0
  IN  [k \in 1..(3 - pad) |-> FromCharCode(bytes[k])]

\* Buffer.from(s, "base64").toString() for padded base64 of ASCII text
RECURSIVE fromBase64(_)
fromBase64(s) ==
  IF Len(s) < 4 THEN << >>
  ELSE FromBase64Group(SubSeq(s, 1, 4)) \o fromBase64(SubSeq(s, 5, Len(s)))

\* ------------------------------------------------------------------------
\* String literals of the sources and of the inputs
\* ------------------------------------------------------------------------

S_cogview == << "c","o","g","v","i","e","w" >>

S_GLM_Image == << "G","L","M","-","I","m","a","g","e" >>

S_glm_image == << "g","l","m","-","i","m","a","g","e" >>

S_Z_Image == << "Z","-","I","m","a","g","e" >>

S_z_image == << "z","-","i","m","a","g","e" >>

S_modelscope == << "m","o","d","e","l","s","c","o","p","e" >>

S_slash == << "/" >>

S_cogvideo == << "c","o","g","v","i","d","e","o" >>

S_CogVideo == << "C","o","g","V","i","d","e","o" >>

S_video == << "v","i","d","e","o" >>

S_pipe == << "|" >>

S_id_placeholder == << "{","i","d","}" >>

M_cogview_4 == << "c","o","g","v","i","e","w","-","4" >>

M_CogView_4 == << "C","o","g","V","i","e","w","-","4" >>

M_GLM_Image == << "G","L","M","-","I","m","a","g","e" >>

M_glm_image == << "g","l","m","-","i","m","a","g","e" >>

M_Tongyi_Z_Image == << "T","o","n","g","y","i","-","M","A","I","/","Z","-","I","m","a","g","e","-","T","u","r","b","o" >>

M_z_image_turbo == << "z","-","i","m","a","g","e","-","t","u","r","b","o" >>

M_gpt_image_1 == << "g","p","t","-","i","m","a","g","e","-","1" >>

M_org_cogview == << "o","r","g","/","c","o","g","v","i","e","w","-","4" >>

M_glm_4v == << "g","l","m","-","4","v" >>

M_glm_4v_plus == << "g","l","m","-","4","v","-","p","l","u","s" >>

M_cogview_3_flash == << "c","o","g","v","i","e","w","-","3","-","f","l","a","s","h" >>

M_cogview_4_250304 == << "c","o","g","v","i","e","w","-","4","-","2","5","0","3","0","4" >>

M_cogvideox == << "c","o","g","v","i","d","e","o","x","-","f","l","a","s","h" >>

M_CogVideoX == << "C","o","g","V","i","d","e","o","X","-","F","l","a","s","h" >>

M_COGVIDEOX == << "C","O","G","V","I","D","E","O","X" >>

M_org_cogvideo == << "o","r","g","/","c","o","g","v","i","d","e","o","x" >>

M_org_video == << "o","r","g","/","v","i","d","e","o","-","g","e","n" >>

M_org_t2v == << "o","r","g","/","t","2","v" >>

M_video_1 == << "v","i","d","e","o","-","1" >>

U_modelscope_slash ==
  << "h","t","t","p",":","/","/","m","o","d","e","l","s","c","o","p","e","/","/" >>

S_comma == << "," >>

S_data_image_jpeg_base64 ==
  << "d","a","t","a",":","i","m","a","g","e","/","j","p","e","g",";",
     "b","a","s","e","6","4","," >>

M_sora_2 == << "s","o","r","a","-","2" >>

M_modelscope_t2v == << "m","o","d","e","l","s","c","o","p","e","-","t","2","v" >>

K_abc123 == << "a","b","c","1","2","3" >>

K_Bearer_abc123 == << "B","e","a","r","e","r"," "," "," ","a","b","c","1","2","3"," "," " >>

K_Bearer_only == << "B","e","a","r","e","r"," " >>

K_lower_bearer == << "b","e","a","r","e","r"," ","a","b","c","1","2","3" >>

U_blank == << " "," " >>

U_host == << "h","t","t","p",":","/","/","x" >>

U_host_slash == << "h","t","t","p",":","/","/","x","/","/" >>

U_piped == << "h","t","t","p",":","/","/","x","/","v","|","h","t","t","p",":","/","/","x","/","q","/","{","i","d","}" >>

U_request == << "h","t","t","p",":","/","/","x","/","v" >>

D_bigmodel == << "h","t","t","p","s",":","/","/","o","p","e","n",".","b","i","g","m","o","d","e","l",".","c","n","/","a","p","i","/","p","a","a","s","/","v","4" >>

D_modelscope_v1 == << "h","t","t","p","s",":","/","/","a","p","i","-","i","n","f","e","r","e","n","c","e",".","m","o","d","e","l","s","c","o","p","e",".","c","n","/","v","1" >>

D_modelscope_api_v1 == << "h","t","t","p","s",":","/","/","a","p","i","-","i","n","f","e","r","e","n","c","e",".","m","o","d","e","l","s","c","o","p","e",".","c","n","/","a","p","i","/","v","1" >>

D_modelscope_inference == << "h","t","t","p","s",":","/","/","i","n","f","e","r","e","n","c","e",".","m","o","d","e","l","s","c","o","p","e",".","c","n","/","a","p","i","/","v","1" >>

P_images_generations == << "/","i","m","a","g","e","s","/","g","e","n","e","r","a","t","i","o","n","s" >>

P_videos_generations == << "/","v","i","d","e","o","s","/","g","e","n","e","r","a","t","i","o","n","s" >>

P_videos == << "/","v","i","d","e","o","s","/" >>

P_tasks == << "/","t","a","s","k","s","/" >>

P_models == << "/","m","o","d","e","l","s","/" >>

P_inference == << "/","i","n","f","e","r","e","n","c","e" >>

P_chat_completions == << "/","c","h","a","t","/","c","o","m","p","l","e","t","i","o","n","s" >>

S_prompt == << "a"," ","c","a","t" >>

T_task1 == << "t","1" >>

T_task2 == << "t","2" >>

V_url1 == << "h","t","t","p",":","/","/","v","/","1",".","m","p","4" >>

V_url2 == << "h","t","t","p",":","/","/","v","/","2",".","m","p","4" >>

S_default_image_prompt == << "a","n","a","l","y","s","e" >>

S_default_frame_prompt == << "a","n","a","l","y","s","e"," ","f","r","a","m","e" >>

B_bare2 == << "B","B","B","=" >>

P_extract_video_frames == << "/","a","p","i","/","u","t","i","l","s","/","e","x","t","r","a","c","t","-","v","i","d","e","o","-","f","r","a","m","e","s" >>

\* the fixed words of the summary: "<head><n><mid><results joined by sep>"
S_summary_head == << "f","r","a","m","e","s"," " >>

S_summary_mid == << " ","r","e","s","u","l","t","s",":","\n" >>

S_summary_sep == << "\n","-","-","-","\n" >>

I_url == << "h","t","t","p",":","/","/","i","/","1",".","p","n","g" >>

B_data_png == << "d","a","t","a",":","i","m","a","g","e","/","p","n","g",";","b","a","s","e","6","4",",","A","A","A","=" >>

B_bare == << "A","A","A","=" >>

H_Bearer_abc123 == << "B","e","a","r","e","r"," ","a","b","c","1","2","3" >>

\* ------------------------------------------------------------------------
\* Inputs: AIConfig {model, apiKey, baseURL} and ImageConfig / VideoConfig
\* ------------------------------------------------------------------------

ImageModels ==
  { Undefined, << >>, M_cogview_4, M_CogView_4, M_GLM_Image, M_glm_image,
    M_Tongyi_Z_Image, M_z_image_turbo, M_gpt_image_1, M_org_cogview, M_glm_4v }

VideoModels ==
  { Undefined, M_cogvideox, M_CogVideoX, M_COGVIDEOX, M_org_cogvideo,
    M_org_video, M_org_t2v, M_video_1, M_sora_2, M_modelscope_t2v }

ApiKeys == { Undefined, K_abc123, K_Bearer_abc123, K_Bearer_only }

ImageBaseURLs == { Undefined, U_blank, U_host, U_host_slash }

VideoBaseURLs == { Undefined, U_blank, U_piped, U_modelscope_slash }

\* every model id and base URL with one key, and every key with a few models
ImageConfigs ==
  [model : ImageModels, apiKey : {K_Bearer_abc123}, baseURL : ImageBaseURLs]
  \cup [model : {Undefined, M_cogview_4, M_Tongyi_Z_Image, M_gpt_image_1},
        apiKey : ApiKeys, baseURL : {Undefined, U_host}]

VideoConfigs ==
  [model : VideoModels, apiKey : {K_Bearer_abc123}, baseURL : VideoBaseURLs]
  \cup [model : {Undefined, M_cogvideox, M_org_video, M_sora_2},
        apiKey : ApiKeys, baseURL : {Undefined, U_piped}]

\* imageBase64 is a list of strings; an absent list is the empty list here
\* (the sources test `input.imageBase64 && input.imageBase64.length`).
NoInput ==
  [prompt |-> Undefined, imageBase64 |-> << >>, imageUrl |-> Undefined,
   videoFile |-> FALSE, videoUrl |-> Undefined, resType |-> "url",
   framesGiven |-> FALSE, frameBase64List |-> << >>]

ImageDispatchInputs ==
  { [NoInput EXCEPT !.prompt = p, !.imageBase64 = b, !.resType = r] :
      p \in {Undefined, S_prompt}, b \in {<< >>, << B_data_png >>},
      r \in {"url", "b64"} }

ImageAdapterInputs ==
  { [NoInput EXCEPT !.prompt = p, !.imageBase64 = b, !.resType = r,
                    !.imageUrl = u] :
      p \in {Undefined, S_prompt},
      b \in {<< >>, << B_data_png >>, << B_bare >>},
      r \in {"url", "b64"}, u \in {Undefined, I_url} }

VideoDispatchInputs ==
  { [NoInput EXCEPT !.prompt = S_prompt],
    [NoInput EXCEPT !.imageBase64 = << B_data_png >>] }

VideoAnalysisInputs ==
  { [NoInput EXCEPT !.videoFile = f, !.videoUrl = u] :
      f \in BOOLEAN, u \in {Undefined, V_url1} }

\* frameBase64List is present when framesGiven; a present list may be empty
FrameAnalysisInputs ==
  { [NoInput EXCEPT !.videoFile = f, !.prompt = p] :
      f \in BOOLEAN, p \in {Undefined, S_prompt} }
  \cup { [NoInput EXCEPT !.videoFile = f, !.framesGiven = TRUE,
                         !.frameBase64List = l] :
           f \in BOOLEAN,
           l \in {<< >>, << B_data_png >>, << B_bare, B_bare2 >>} }

FrameAnalysisConfigs ==
  [model : {Undefined, M_glm_4v, M_cogview_4},
   apiKey : {Undefined, K_abc123}, baseURL : {Undefined}]

AdapterModels ==
  { Undefined, M_cogview_4, M_glm_4v, M_Tongyi_Z_Image, M_gpt_image_1 }

AdapterConfigs ==
  [model : AdapterModels, apiKey : {K_Bearer_abc123},
   baseURL : {Undefined, U_host_slash}]
  \cup [model : {Undefined, M_cogview_4, M_glm_4v}, apiKey : ApiKeys,
        baseURL : {Undefined}]

NoConfig == [model |-> Undefined, apiKey |-> Undefined, baseURL |-> Undefined]

\* ------------------------------------------------------------------------
\* State of one adapter call
\* ------------------------------------------------------------------------

VARIABLES
  pc,        \* "idle", "submit", "query", "sleep", "download", "extract",
             \* "frame", "done"
  entry,     \* the exported function that was called
  adapter,   \* the function whose HTTP request is awaited
  input,     \* the ImageConfig / VideoConfig of the call
  config,    \* the AIConfig of the call
  acfg,      \* the AIConfig the running adapter function received
  invoked,   \* provider adapters the dispatcher has invoked, in order
  http,      \* HTTP requests issued so far, in order
  inflight,  \* HTTP requests issued and not yet answered
  taskId,    \* task id taken from the submission response
  nchecks,   \* invocations of pollTask's check callback
  lastCheck, \* result of the latest invocation of check
  elapsed,   \* time since pollTask started, in polling intervals
  received,  \* the latest answer to the submission, to a status query,
             \* to the download and to the frame extraction, and the
             \* answers to the frame analyses in order of arrival
  frameBase64List, \* the frames the video analysis adapter goes through
  frameResults,    \* the texts of the frames analysed so far
  outcome    \* what the call returned or threw

vars == << pc, entry, adapter, input, config, acfg, invoked, http, inflight,
           taskId, nchecks, lastCheck, elapsed, received, frameBase64List,
           frameResults, outcome >>

frameVars == << frameBase64List, frameResults >>

NoOutcome == [kind |-> "none", err |-> "", type |-> "none", val |-> << >>]

Threw(e) == [kind |-> "throw", err |-> e, type |-> "none", val |-> << >>]

ReturnedString(s) == [kind |-> "return", err |-> "", type |-> "string", val |-> s]

\* a JavaScript object { completed: true, url } handed back to the caller
ReturnedObject(u) == [kind |-> "return", err |-> "", type |-> "object", val |-> u]

NoCheck ==
  [completed |-> FALSE, url |-> Undefined, error |-> "", threw |-> FALSE]

\* An HTTP request as the transport sees it.
Request(kind, by, url, key, model, prompt, image) ==
  [kind |-> kind, by |-> by, url |-> url, auth |-> BearerHeader(key),
   key |-> key, model |-> model, prompt |-> prompt, image |-> image]

\* What the synchronous part of a function does before its first await:
\* either it throws, or it issues one request and waits in `waitAt`.
Throws(e) ==
  [pc |-> "done", adapter |-> "none", acfg |-> NoConfig, invoked |-> << >>,
   reqs |-> << >>, outcome |-> Threw(e)]

Awaits(waitAt, fn, cfg, req) ==
  [pc |-> waitAt, adapter |-> fn, acfg |-> cfg, invoked |-> << >>,
   reqs |-> << req >>, outcome |-> NoOutcome]

\* The dispatcher called provider adapter `name`, which did `step`.
Via(name, step) == [step EXCEPT !.invoked = << name >> \o step.invoked]

\* ------------------------------------------------------------------------
\* Helpers of the request normalizers
\* ------------------------------------------------------------------------

\* a || b on strings
OrDefault(a, b) == IF Falsy(a) THEN b ELSE a

IsLowerLetter(c) == \E i \in 1..26 : LowerLetters[i] = c

IsWordChar(c) ==
  \/ \E i \in 1..26 : LowerLetters[i] = c \/ UpperLetters[i] = c
  \/ c \in {"0","1","2","3","4","5","6","7","8","9","_"}

S_data_image == << "d","a","t","a",":","i","m","a","g","e","/" >>

S_base64_comma == << ";","b","a","s","e","6","4","," >>

\* /^data:image\/<type>{n};base64,/ matches at the start of s; t is s as the
\* regular expression compares it, typeChar the characters <type> may hold
DataPrefixMatches(s, t, n, typeChar(_)) ==
  /\ 19 + n <= Len(s)
  /\ startsWith(t, S_data_image)
  /\ \A j \in 12..(11 + n) : typeChar(t[j])
  /\ SubSeq(t, 12 + n, 19 + n) = S_base64_comma

\* length of the match of /^data:image\/<type>+;base64,/, 0 when there is none
DataPrefixLen(s, t, typeChar(_)) ==
  IF \E n \in 1..Len(s) : DataPrefixMatches(s, t, n, typeChar)
  THEN 19 + (CHOOSE n \in 1..Len(s) : DataPrefixMatches(s, t, n, typeChar))
  ELSE 0

\* s.replace(/^data:image\/[a-z]+;base64,/i, "")
replaceDataImage(s) ==
  SubSeq(s, DataPrefixLen(s, toLowerCase(s), IsLowerLetter) + 1, Len(s))

\* s.replace(/^data:image\/\w+;base64,/, "")
replaceDataImageW(s) ==
  SubSeq(s, DataPrefixLen(s, s, IsWordChar) + 1, Len(s))

\* body.image of the adapters that forward the first reference image bare
cleanFirstImage(i) ==
  IF Len(i.imageBase64) > 0 THEN replaceDataImage(i.imageBase64[1])
  ELSE Undefined

\* ------------------------------------------------------------------------
\* Image adapters behind the image dispatchers: the part before the POST
\* ------------------------------------------------------------------------

\* image/owned/other.ts generateZhipuImage, up to `await axios.post`
generateZhipuImage_v1(i, c) ==
  LET apiKey == cleanApiKey(c.apiKey)
      baseURL == stripTrailingSlashes(OrDefault(c.baseURL, D_bigmodel))
  IN  Awaits("submit", "generateZhipuImage_v1", c,
        Request("submit", "generateZhipuImage_v1",
                baseURL \o P_images_generations, apiKey,
                c.model, i.prompt, cleanFirstImage(i)))

\* image/owned/other.ts generateModelScopeImage, up to `await axios.post`
generateModelScopeImage_v1(i, c) ==
  LET apiKey == cleanApiKey(c.apiKey)
      baseURL == stripTrailingSlashes(OrDefault(c.baseURL, D_modelscope_v1))
  IN  Awaits("submit", "generateModelScopeImage_v1", c,
        Request("submit", "generateModelScopeImage_v1",
                baseURL \o P_images_generations, apiKey,
                c.model, i.prompt, cleanFirstImage(i)))

\* unnamed/part_000 generateZhipuImage: the key arrives already cleaned
generateZhipuImage_v2(i, c) ==
  LET apiKey == c.apiKey
      baseURL == stripTrailingSlashes(OrDefault(c.baseURL, D_bigmodel))
  IN  Awaits("submit", "generateZhipuImage_v2", c,
        Request("submit", "generateZhipuImage_v2",
                baseURL \o P_images_generations, apiKey,
                c.model, i.prompt, cleanFirstImage(i)))

\* unnamed/part_000 generateModelScopeImage
generateModelScopeImage_v2(i, c) ==
  LET apiKey == c.apiKey
      baseURL == stripTrailingSlashes(OrDefault(c.baseURL, D_modelscope_v1))
  IN  Awaits("submit", "generateModelScopeImage_v2", c,
        Request("submit", "generateModelScopeImage_v2",
                baseURL \o P_images_generations, apiKey,
                c.model, i.prompt, cleanFirstImage(i)))

\* ------------------------------------------------------------------------
\* Image dispatchers
\* ------------------------------------------------------------------------

\* image/owned/other.ts:22
isZhipuImage_v1(model) ==
  includes(model, S_cogview) \/ includes(model, S_GLM_Image)

\* image/owned/other.ts:27
isModelScopeImage_v1(model) ==
  \/ includes(model, S_Z_Image)
  \/ includes(model, S_modelscope)
  \/ includes(model, S_slash)

\* the Zhipu test without its "cogview" keyword
isZhipuImage_v2_glmOnly(model) ==
  includes(toLowerCase(model), S_glm_image)

\* unnamed/part_000:21
isZhipuImage_v2(model) ==
  \/ includes(toLowerCase(model), S_cogview)
  \/ includes(toLowerCase(model), S_glm_image)

\* unnamed/part_000:27
isModelScopeImage_v2(model) ==
  \/ includes(model, S_slash)
  \/ includes(toLowerCase(model), S_modelscope)
  \/ includes(toLowerCase(model), S_z_image)

\* The default path of both image dispatchers: the OpenAI-compatible provider
\* of the AI SDK sends the request, with the headers it was created with.
openAIImage(fn, i, c, baseURL, apiKey) ==
  Awaits("submit", fn, c,
    Request("submit", fn, baseURL, apiKey, c.model, i.prompt,
            IF Len(i.imageBase64) > 0 THEN i.imageBase64[1] ELSE Undefined))

\* ModelScope tested before Zhipu
routeImage_v1_swapped(model) ==
  IF isModelScopeImage_v1(model) THEN "modelscope"
  ELSE IF isZhipuImage_v1(model) THEN "zhipu"
  ELSE "default"

\* image/owned/other.ts:21-33, the order of the tests
routeImage_v1(model) ==
  IF isZhipuImage_v1(model) THEN "zhipu"
  ELSE IF isModelScopeImage_v1(model) THEN "modelscope"
  ELSE "default"

\* unnamed/part_000:20-32, the order of the tests
routeImage_v2(model) ==
  IF isZhipuImage_v2(model) THEN "zhipu"
  ELSE IF isModelScopeImage_v2(model) THEN "modelscope"
  ELSE "default"

\* image/owned/other.ts default export (lines 14-127), up to its first await
imageOther_v1(i, c) ==
  IF Falsy(c.model) THEN Throws("missing model")
  ELSE IF Falsy(c.apiKey) THEN Throws("missing apiKey")
  ELSE LET apiKey == cleanApiKey(c.apiKey)
           route == routeImage_v1(c.model)
       IN  IF route = "zhipu" THEN Via("zhipu", generateZhipuImage_v1(i, c))
           ELSE IF route = "modelscope"
             THEN Via("modelscope", generateModelScopeImage_v1(i, c))
           ELSE IF Falsy(c.baseURL) THEN Throws("missing baseURL")
           ELSE Via("default",
                    openAIImage("imageOther_v1", i, c, c.baseURL, apiKey))

\* unnamed/part_000 default export (lines 10-126), up to its first await
imageOther_v2(i, c) ==
  IF Falsy(c.model) THEN Throws("missing model")
  ELSE IF Falsy(c.apiKey) THEN Throws("missing apiKey")
  ELSE LET apiKey == cleanApiKey(c.apiKey)
           baseURL == IF Falsy(c.baseURL) THEN << >> ELSE trim(c.baseURL)
           passed == [c EXCEPT !.apiKey = apiKey, !.baseURL = baseURL]
           route == routeImage_v2(c.model)
       IN  IF route = "zhipu"
             THEN Via("zhipu", generateZhipuImage_v2(i, passed))
           ELSE IF route = "modelscope"
             THEN Via("modelscope", generateModelScopeImage_v2(i, passed))
           ELSE IF Falsy(baseURL) THEN Throws("missing baseURL")
           ELSE Via("default",
                    openAIImage("imageOther_v2", i, c, baseURL, apiKey))

\* ------------------------------------------------------------------------
\* Video adapters behind the video dispatchers: the part before the POST
\* ------------------------------------------------------------------------

\* video/owned/other.ts:79-121 generateZhipuVideo (first variant)
generateZhipuVideo_v1(i, c) ==
  LET apiKey == c.apiKey
      baseURL == stripTrailingSlashes(OrDefault(c.baseURL, D_bigmodel))
  IN  Awaits("submit", "generateZhipuVideo_v1", c,
        Request("submit", "generateZhipuVideo_v1",
                baseURL \o P_videos_generations, apiKey,
                c.model, i.prompt, cleanFirstImage(i)))

\* video/owned/other.ts:180-217 generateModelScopeVideo (first variant)
generateModelScopeVideo_v1(i, c) ==
  LET apiKey == c.apiKey
      baseURL == stripTrailingSlashes(OrDefault(c.baseURL, D_modelscope_v1))
  IN  Awaits("submit", "generateModelScopeVideo_v1", c,
        Request("submit", "generateModelScopeVideo_v1",
                baseURL \o P_videos_generations, apiKey,
                c.model, i.prompt, cleanFirstImage(i)))

\* video/owned/other.ts:361-405 generateZhipuVideo (second variant)
generateZhipuVideo_v2(i, c) ==
  LET apiKey == cleanApiKey(c.apiKey)
      baseURL == stripTrailingSlashes(OrDefault(c.baseURL, D_bigmodel))
  IN  Awaits("submit", "generateZhipuVideo_v2", c,
        Request("submit", "generateZhipuVideo_v2",
                baseURL \o P_videos_generations, apiKey,
                c.model, i.prompt, cleanFirstImage(i)))

\* video/owned/other.ts:460-501 generateModelScopeVideo (second variant)
generateModelScopeVideo_v2(i, c) ==
  LET apiKey == cleanApiKey(c.apiKey)
      baseURL ==
        stripTrailingSlashes(OrDefault(c.baseURL, D_modelscope_api_v1))
  IN  Awaits("submit", "generateModelScopeVideo_v2", c,
        Request("submit", "generateModelScopeVideo_v2",
                baseURL \o P_models \o Interp(c.model) \o P_inference, apiKey,
                c.model, i.prompt, cleanFirstImage(i)))

\* index of the first "|" of s, 0 when there is none
FirstPipe(s) ==
  IF \E k \in 1..Len(s) : s[k] = "|"
  THEN CHOOSE k \in 1..Len(s) : s[k] = "|" /\ \A j \in 1..(k - 1) : s[j] # "|"
  ELSE 0

\* s.split("|")[0]
splitFirst(s) ==
  IF FirstPipe(s) = 0 THEN s ELSE SubSeq(s, 1, FirstPipe(s) - 1)

\* s.split("|")[1]
splitSecond(s) ==
  IF FirstPipe(s) = 0 THEN Undefined
  ELSE LET rest == SubSeq(s, FirstPipe(s) + 1, Len(s))
       IN  splitFirst(rest)

\* The default path of both video dispatchers, from baseURL.split("|") to
\* `await axios.post(requestUrl, ...)`: the header carries config.apiKey.
openAIVideo(fn, i, c, baseURL) ==
  Awaits("submit", fn, [c EXCEPT !.baseURL = baseURL],
    Request("submit", fn, splitFirst(baseURL), c.apiKey, c.model, i.prompt,
            IF Len(i.imageBase64) > 0
            THEN replaceDataImageW(i.imageBase64[1]) ELSE Undefined))

\* ------------------------------------------------------------------------
\* Video dispatchers
\* ------------------------------------------------------------------------

\* video/owned/other.ts:19
isZhipuVideo_v1(model) == includes(toLowerCase(model), S_cogvideo)

\* video/owned/other.ts:24
isModelScopeVideo_v1(model) ==
  includes(model, S_slash) \/ includes(toLowerCase(model), S_modelscope)

\* video/owned/other.ts:298
isZhipuVideo_v2(model) ==
  includes(model, S_cogvideo) \/ includes(model, S_CogVideo)

\* video/owned/other.ts:303
isModelScopeVideo_v2(model, baseURL) ==
  /\ includes(model, S_video)
  /\ \/ includes(model, S_modelscope)
     \/ includes(model, S_slash)
     \/ (baseURL # Undefined /\ includes(baseURL, S_modelscope))

\* video/owned/other.ts:18-29, the order of the tests
routeVideo_v1(model) ==
  IF isZhipuVideo_v1(model) THEN "zhipu"
  ELSE IF isModelScopeVideo_v1(model) THEN "modelscope"
  ELSE "default"

\* video/owned/other.ts:297-308, the order of the tests
routeVideo_v2(model, baseURL) ==
  IF isZhipuVideo_v2(model) THEN "zhipu"
  ELSE IF isModelScopeVideo_v2(model, baseURL) THEN "modelscope"
  ELSE "default"

\* video/owned/other.ts default export (lines 10-74), up to its first await
videoOther_v1(i, c) ==
  IF Falsy(c.apiKey) THEN Throws("missing apiKey")
  ELSE IF Falsy(c.model) THEN Throws("missing model")
  ELSE LET apiKey == cleanApiKey(c.apiKey)
           baseURL == IF Falsy(c.baseURL) THEN << >> ELSE trim(c.baseURL)
           passed == [c EXCEPT !.apiKey = apiKey, !.baseURL = baseURL]
           route == routeVideo_v1(c.model)
       IN  IF route = "zhipu"
             THEN Via("zhipu", generateZhipuVideo_v1(i, passed))
           ELSE IF route = "modelscope"
             THEN Via("modelscope", generateModelScopeVideo_v1(i, passed))
           ELSE IF Falsy(baseURL) THEN Throws("missing baseURL")
           ELSE Via("default", openAIVideo("videoOther_v1", i, c, baseURL))

\* video/owned/other.ts default export (lines 292-354), up to its first await
videoOther_v2(i, c) ==
  IF Falsy(c.apiKey) THEN Throws("missing apiKey")
  ELSE LET model == OrDefault(c.model, << >>)
           route == routeVideo_v2(model, c.baseURL)
       IN  IF route = "zhipu"
             THEN Via("zhipu", generateZhipuVideo_v2(i, c))
           ELSE IF route = "modelscope"
             THEN Via("modelscope", generateModelScopeVideo_v2(i, c))
           ELSE IF Falsy(c.baseURL) THEN Throws("missing baseURL")
           ELSE Via("default", openAIVideo("videoOther_v2", i, c, c.baseURL))

\* ------------------------------------------------------------------------
\* Adapters exported on their own: the part before the POST
\* ------------------------------------------------------------------------

\* image/owned/modelScope.ts:12-54, ModelScope native image adapter
modelScopeNative(i, c) ==
  IF Falsy(c.model) THEN Throws("missing model")
  ELSE IF Falsy(c.apiKey) THEN Throws("missing apiKey")
  ELSE IF Falsy(i.prompt) THEN Throws("missing prompt")
  ELSE LET apiKey == cleanApiKey(c.apiKey)
           baseURL ==
             stripTrailingSlashes(OrDefault(c.baseURL, D_modelscope_api_v1))
           image == IF Len(i.imageBase64) > 0
                    THEN replaceDataImage(i.imageBase64[1])
                    ELSE i.imageUrl
       IN  Awaits("submit", "modelScopeNative", c,
             Request("submit", "modelScopeNative",
                     baseURL \o P_models \o Interp(c.model) \o P_inference,
                     apiKey, c.model, i.prompt, image))

\* image/owned/modelScope.ts:103-137, ModelScope image-to-image adapter
modelScopeImage(i, c) ==
  LET modelScopeBaseUrl == OrDefault(c.baseURL, D_modelscope_inference)
  IN  IF Len(i.imageBase64) = 0 /\ Falsy(i.imageUrl)
      THEN Throws("missing image")
      ELSE Awaits("submit", "modelScopeImage", c,
             Request("submit", "modelScopeImage",
                     modelScopeBaseUrl \o P_models \o Interp(c.model)
                       \o P_inference,
                     c.apiKey, c.model, Undefined,
                     IF Len(i.imageBase64) > 0 THEN i.imageBase64[1]
                     ELSE i.imageUrl))

\* image/owned/modelScope.ts:183-188
supportedModels ==
  { M_cogview_3_flash, M_cogview_4, M_cogview_4_250304, M_GLM_Image }

\* the adapter without its allow-list: any model id is sent to the provider
zhipuCogView_anyModel(i, c) ==
  IF Falsy(c.model) THEN Throws("missing model")
  ELSE IF Falsy(c.apiKey) THEN Throws("missing apiKey")
  ELSE IF Falsy(i.prompt) THEN Throws("missing prompt")
  ELSE Awaits("submit", "zhipuCogView", c,
         Request("submit", "zhipuCogView",
                 stripTrailingSlashes(OrDefault(c.baseURL, D_bigmodel))
                   \o P_images_generations,
                 cleanApiKey(c.apiKey), c.model, i.prompt, cleanFirstImage(i)))

\* image/owned/modelScope.ts:170-221, Zhipu CogView adapter
zhipuCogView(i, c) ==
  IF Falsy(c.model) THEN Throws("missing model")
  ELSE IF Falsy(c.apiKey) THEN Throws("missing apiKey")
  ELSE IF Falsy(i.prompt) THEN Throws("missing prompt")
  ELSE IF c.model \notin supportedModels THEN Throws("unsupported model")
  ELSE LET apiKey == cleanApiKey(c.apiKey)
           baseURL == stripTrailingSlashes(OrDefault(c.baseURL, D_bigmodel))
       IN  Awaits("submit", "zhipuCogView", c,
             Request("submit", "zhipuCogView",
                     baseURL \o P_images_generations, apiKey,
                     c.model, i.prompt, cleanFirstImage(i)))

\* index of the first "," of s, 0 when there is none
FirstComma(s) ==
  IF \E k \in 1..Len(s) : s[k] = ","
  THEN CHOOSE k \in 1..Len(s) : s[k] = "," /\ \A j \in 1..(k - 1) : s[j] # ","
  ELSE 0

\* s.split(",")[1]
splitCommaSecond(s) ==
  IF FirstComma(s) = 0 THEN Undefined
  ELSE LET rest == SubSeq(s, FirstComma(s) + 1, Len(s))
       IN  IF FirstComma(rest) = 0 THEN rest
           ELSE SubSeq(rest, 1, FirstComma(rest) - 1)

\* image/owned/modelScope.ts:257-308, Zhipu GLM-4V adapter
zhipuGLM4V(i, c) ==
  LET bigModelBaseUrl == OrDefault(c.baseURL, D_bigmodel)
  IN  IF Falsy(c.model) \/ c.model \notin {M_glm_4v, M_glm_4v_plus}
      THEN Throws("unsupported model")
      ELSE IF Len(i.imageBase64) > 0
      THEN LET imageContent ==
                 OrDefault(splitCommaSecond(i.imageBase64[1]),
                           i.imageBase64[1])
           IN  Awaits("submit", "zhipuGLM4V", c,
                 Request("submit", "zhipuGLM4V",
                         bigModelBaseUrl \o P_chat_completions,
                         c.apiKey, c.model,
                         OrDefault(i.prompt, S_default_image_prompt),
                         S_data_image_jpeg_base64 \o imageContent))
      ELSE IF ~Falsy(i.imageUrl) THEN Throws("imageUrl not supported")
      ELSE Throws("missing image")

\* image/owned/other.ts:280-320, ModelScope video adapter
modelScopeVideo(i, c) ==
  LET modelScopeBaseUrl == OrDefault(c.baseURL, D_modelscope_inference)
  IN  IF Falsy(c.apiKey) THEN Throws("missing apiKey")
      ELSE IF Falsy(c.model) THEN Throws("missing model")
      ELSE IF i.videoFile \/ ~Falsy(i.videoUrl)
      THEN Awaits("submit", "modelScopeVideo", c,
             Request("submit", "modelScopeVideo",
                     modelScopeBaseUrl \o P_models \o Interp(c.model)
                       \o P_inference,
                     c.apiKey, c.model, Undefined, Undefined))
      ELSE Throws("missing video")

\* ------------------------------------------------------------------------
\* Calls: the caller invokes one exported function
\* ------------------------------------------------------------------------

\* The synchronous part of exported function `fn` ran and did `step`.
Called(fn, i, c, step) ==
  /\ pc = "idle"
  /\ entry' = fn
  /\ input' = i
  /\ config' = c
  /\ pc' = step.pc
  /\ adapter' = step.adapter
  /\ acfg' = step.acfg
  /\ invoked' = step.invoked
  /\ http' = step.reqs
  /\ inflight' = Len(step.reqs)
  /\ outcome' = step.outcome
  /\ UNCHANGED << taskId, nchecks, lastCheck, elapsed, received >>
  /\ UNCHANGED frameVars

CallImageOther_v1 ==
  \E i \in ImageDispatchInputs, c \in ImageConfigs :
    Called("imageOther_v1", i, c, imageOther_v1(i, c))

CallImageOther_v2 ==
  \E i \in ImageDispatchInputs, c \in ImageConfigs :
    Called("imageOther_v2", i, c, imageOther_v2(i, c))

CallVideoOther_v1 ==
  \E i \in VideoDispatchInputs, c \in VideoConfigs :
    Called("videoOther_v1", i, c, videoOther_v1(i, c))

CallVideoOther_v2 ==
  \E i \in VideoDispatchInputs, c \in VideoConfigs :
    Called("videoOther_v2", i, c, videoOther_v2(i, c))

CallModelScopeNative ==
  \E i \in ImageAdapterInputs, c \in AdapterConfigs :
    Called("modelScopeNative", i, c, modelScopeNative(i, c))

CallModelScopeImage ==
  \E i \in ImageAdapterInputs, c \in AdapterConfigs :
    Called("modelScopeImage", i, c, modelScopeImage(i, c))

CallZhipuCogView ==
  \E i \in ImageAdapterInputs, c \in AdapterConfigs :
    Called("zhipuCogView", i, c, zhipuCogView(i, c))

CallZhipuGLM4V ==
  \E i \in ImageAdapterInputs, c \in AdapterConfigs :
    Called("zhipuGLM4V", i, c, zhipuGLM4V(i, c))

CallModelScopeVideo ==
  \E i \in VideoAnalysisInputs, c \in VideoConfigs :
    Called("modelScopeVideo", i, c, modelScopeVideo(i, c))

\* ------------------------------------------------------------------------
\* Provider responses
\* ------------------------------------------------------------------------

T_text == << "h","i" >>

T_text2 == << "y","o" >>

T_png_bytes == << "P","N","G" >>

S_image_jpeg == << "i","m","a","g","e","/","j","p","e","g" >>

S_image_png == << "i","m","a","g","e","/","p","n","g" >>

S_data_colon == << "d","a","t","a",":" >>

S_data_image_nocolon == << "d","a","t","a",":","i","m","a","g","e" >>

S_data_image_png_base64 ==
  << "d","a","t","a",":","i","m","a","g","e","/","p","n","g",";",
     "b","a","s","e","6","4","," >>

S_data_text_plain_base64 ==
  << "d","a","t","a",":","t","e","x","t","/","p","l","a","i","n",";",
     "b","a","s","e","6","4","," >>

\* The body of the answer to a POST; fail: the request failed (network error,
\* HTTP error status or timeout), so axios rejected. An absent status is "".
NoResp ==
  [fail |-> FALSE, status |-> "", id |-> Undefined,
   task_id |-> Undefined, output_task_id |-> Undefined,
   video_url |-> Undefined, url |-> Undefined, output_video_url |-> Undefined,
   data_url |-> Undefined, images_url |-> Undefined, has_output |-> FALSE,
   output_image_url |-> Undefined, output_image_base64 |-> Undefined,
   output_text |-> Undefined, choices_content |-> Undefined,
   image_base64 |-> Undefined]

FailedResp == [NoResp EXCEPT !.fail = TRUE]

\* answers to POST .../images/generations
ImageUrlResponses ==
  { FailedResp, NoResp,
    [NoResp EXCEPT !.data_url = I_url],
    [NoResp EXCEPT !.images_url = I_url] }

\* results of the AI SDK's generateImage
SdkImageResponses == { FailedResp, [NoResp EXCEPT !.image_base64 = B_bare] }

\* answers to POST .../models/<model>/inference of an image model
InferenceResponses ==
  { FailedResp, NoResp, [NoResp EXCEPT !.has_output = TRUE] }
  \cup { [NoResp EXCEPT !.has_output = TRUE, !.output_image_url = u,
                        !.output_image_base64 = b, !.output_text = t] :
           u \in {Undefined, I_url}, b \in {Undefined, B_bare, B_data_png},
           t \in {Undefined, T_text} }

\* answers to POST .../chat/completions
ChatResponses ==
  { FailedResp, NoResp, [NoResp EXCEPT !.choices_content = T_text],
    [NoResp EXCEPT !.choices_content = T_text2] }

\* answers to POST .../models/<model>/inference of a video analysis model
VideoInferenceResponses ==
  { FailedResp, NoResp,
    [NoResp EXCEPT !.task_id = T_task1],
    [NoResp EXCEPT !.has_output = TRUE],
    [NoResp EXCEPT !.has_output = TRUE, !.output_text = T_text],
    [NoResp EXCEPT !.has_output = TRUE, !.output_video_url = V_url1],
    [NoResp EXCEPT !.has_output = TRUE, !.output_text = T_text,
                   !.output_video_url = V_url1] }

\* answers to the POST that submits a video generation task
VideoSubmitResponses ==
  { FailedResp, NoResp,
    [NoResp EXCEPT !.id = T_task1],
    [NoResp EXCEPT !.task_id = T_task1],
    [NoResp EXCEPT !.id = T_task1, !.has_output = TRUE,
                   !.output_task_id = T_task2],
    [NoResp EXCEPT !.id = T_task1, !.status = "FAILED"],
    [NoResp EXCEPT !.status = "FAILED"],
    [NoResp EXCEPT !.video_url = V_url1],
    [NoResp EXCEPT !.url = V_url2],
    [NoResp EXCEPT !.has_output = TRUE, !.output_video_url = V_url1],
    [NoResp EXCEPT !.id = T_task1, !.video_url = V_url1] }

\* The body of the answer to a status query (GET).
NoQuery ==
  [fail |-> FALSE, status |-> "", output_status |-> "",
   video_result_url |-> Undefined, url |-> Undefined, video_url |-> Undefined,
   output_video_url |-> Undefined, results_len |-> 0,
   results_url |-> Undefined]

QueryResponses ==
  { [NoQuery EXCEPT !.fail = TRUE], NoQuery,
    [NoQuery EXCEPT !.status = "CANCELED"],
    [NoQuery EXCEPT !.status = "FAILED"],
    [NoQuery EXCEPT !.status = "failed"],
    [NoQuery EXCEPT !.status = "PROCESSING"],
    [NoQuery EXCEPT !.status = "PENDING", !.video_result_url = V_url1],
    [NoQuery EXCEPT !.status = "RUNNING"],
    [NoQuery EXCEPT !.status = "QUEUED"],
    [NoQuery EXCEPT !.output_status = "RUNNING"],
    [NoQuery EXCEPT !.status = "SUCCESS"],
    [NoQuery EXCEPT !.status = "SUCCESS", !.video_result_url = V_url1],
    [NoQuery EXCEPT !.status = "SUCCESS", !.url = V_url2],
    [NoQuery EXCEPT !.status = "SUCCESS", !.results_len = 1],
    [NoQuery EXCEPT !.status = "SUCCESS", !.results_len = 1,
                    !.results_url = V_url1],
    [NoQuery EXCEPT !.status = "succeed", !.video_url = V_url1],
    [NoQuery EXCEPT !.status = "SUCCEEDED", !.output_video_url = V_url2],
    [NoQuery EXCEPT !.output_status = "SUCCEEDED",
                    !.output_video_url = V_url2] }

\* the answers to the status query of function fn; answers that differ only
\* in fields its check callback never reads are one answer
QueryResponsesOf(fn) ==
  CASE fn \in {"generateZhipuVideo_v1", "generateZhipuVideo_v2"} ->
         { q \in QueryResponses :
             /\ q.output_status = "" /\ q.results_len = 0
             /\ q.video_url = Undefined /\ q.output_video_url = Undefined }
    [] fn \in {"generateModelScopeVideo_v1", "generateModelScopeVideo_v2"} ->
         { q \in QueryResponses :
             q.video_result_url = Undefined /\ q.url = Undefined }
    [] OTHER ->
         { q \in QueryResponses :
             /\ q.output_status = ""
             /\ \A u \in {q.video_result_url, q.url, q.video_url,
                            q.output_video_url} : u = Undefined }

\* no answer has arrived yet
NoDownload == [fail |-> FALSE, contentType |-> Undefined, body |-> << >>]

NoExtract == [fail |-> FALSE, has_frames |-> FALSE, frames |-> << >>]

\* The answer to POST /api/utils/extract-video-frames.
ExtractResponses ==
  { [NoExtract EXCEPT !.fail = TRUE], NoExtract,
    [NoExtract EXCEPT !.has_frames = TRUE],
    [NoExtract EXCEPT !.has_frames = TRUE, !.frames = << B_bare, B_bare2 >>] }

NoAnswers ==
  [submit |-> NoResp, query |-> NoQuery, download |-> NoDownload,
   extract |-> NoExtract, frames |-> << >>]

\* The answer to the GET that downloads an image.
DownloadResponses ==
  { [fail |-> TRUE, contentType |-> Undefined, body |-> << >>],
    [fail |-> FALSE, contentType |-> Undefined, body |-> T_png_bytes],
    [fail |-> FALSE, contentType |-> S_image_jpeg, body |-> T_png_bytes] }

\* ------------------------------------------------------------------------
\* Status-check callbacks handed to pollTask
\* ------------------------------------------------------------------------

\* What one invocation of check gave back: the object it returned, or
\* threw = TRUE and the error it rejected with.
Pending == NoCheck

Completed(u) == [Pending EXCEPT !.completed = TRUE, !.url = u]

CheckError(e) == [Pending EXCEPT !.error = e]

CheckThrew(e) == [Pending EXCEPT !.error = e, !.threw = TRUE]

\* video/owned/other.ts:62-73 and 342-353, check of the default path
checkOpenAIVideo(q) ==
  IF q.fail THEN CheckThrew("request failed")
  ELSE IF q.status = "SUCCESS"
    THEN IF q.results_len > 0 THEN Completed(q.results_url)
         ELSE CheckError("succeeded without url")
  ELSE IF q.status = "FAILED" THEN CheckError("task failed")
  ELSE IF q.status = "QUEUED" \/ q.status = "RUNNING" THEN Pending
  ELSE CheckError("unknown status")

\* video/owned/other.ts:131-168, check of generateZhipuVideo (first variant)
checkZhipuVideo_v1(q) ==
  IF q.fail THEN CheckError("query failed")
  ELSE IF q.status = "SUCCESS" \/ q.status = "succeed"
    THEN LET videoUrl == OrDefault(q.video_result_url, q.url)
         IN  IF Falsy(videoUrl) THEN CheckError("succeeded without url")
             ELSE Completed(videoUrl)
  ELSE IF q.status = "FAILED" \/ q.status = "failed"
    THEN CheckError("task failed")
  ELSE IF q.status = "PROCESSING" \/ q.status = "PENDING"
          \/ q.status = "RUNNING"
    THEN Pending
  ELSE CheckError("unknown status")

\* queryData.status || queryData.output?.status
statusOf(q) == IF q.status = "" THEN q.output_status ELSE q.status

\* video/owned/other.ts:231-268, check of generateModelScopeVideo (first)
checkModelScopeVideo_v1(q) ==
  IF q.fail THEN CheckError("query failed")
  ELSE IF statusOf(q) = "SUCCEEDED" \/ statusOf(q) = "SUCCESS"
          \/ statusOf(q) = "succeed"
    THEN LET videoUrl ==
               OrDefault(q.video_url,
                         OrDefault(q.output_video_url, q.results_url))
         IN  IF Falsy(videoUrl) THEN CheckError("succeeded without url")
             ELSE Completed(videoUrl)
  ELSE IF statusOf(q) = "FAILED" \/ statusOf(q) = "failed"
    THEN CheckError("task failed")
  ELSE IF statusOf(q) = "RUNNING" \/ statusOf(q) = "PENDING"
          \/ statusOf(q) = "QUEUED" \/ statusOf(q) = "PROCESSING"
    THEN Pending
  ELSE CheckError("unknown status")

\* video/owned/other.ts:416-447, check of generateZhipuVideo (second variant)
checkZhipuVideo_v2(q) ==
  IF q.fail THEN CheckThrew("request failed")
  ELSE IF q.status = "SUCCESS"
    THEN IF Falsy(q.video_result_url) THEN CheckError("succeeded without url")
         ELSE Completed(q.video_result_url)
  ELSE IF q.status = "FAILED" THEN CheckError("task failed")
  ELSE IF q.status = "PROCESSING" \/ q.status = "PENDING" THEN Pending
  ELSE CheckError("unknown status")

\* video/owned/other.ts:518-548, check of generateModelScopeVideo (second)
checkModelScopeVideo_v2(q) ==
  IF q.fail THEN CheckThrew("request failed")
  ELSE IF statusOf(q) = "SUCCEEDED" \/ statusOf(q) = "SUCCESS"
    THEN LET videoUrl ==
               OrDefault(q.output_video_url,
                         OrDefault(q.video_url, q.results_url))
         IN  IF Falsy(videoUrl) THEN CheckError("succeeded without url")
             ELSE Completed(videoUrl)
  ELSE IF statusOf(q) = "FAILED" THEN CheckError("task failed")
  ELSE IF statusOf(q) = "RUNNING" \/ statusOf(q) = "PENDING"
          \/ statusOf(q) = "QUEUED"
    THEN Pending
  ELSE CheckError("unknown status")

\* the check callback each polling function hands to pollTask
checkOf(fn, q) ==
  CASE fn = "generateZhipuVideo_v1" -> checkZhipuVideo_v1(q)
    [] fn = "generateModelScopeVideo_v1" -> checkModelScopeVideo_v1(q)
    [] fn = "generateZhipuVideo_v2" -> checkZhipuVideo_v2(q)
    [] fn = "generateModelScopeVideo_v2" -> checkModelScopeVideo_v2(q)
    [] OTHER -> checkOpenAIVideo(q)

\* index of the first occurrence of pat in s, 0 when there is none
IndexOf(s, pat) ==
  IF includes(s, pat)
  THEN CHOOSE k \in 1..Len(s) :
         /\ k + Len(pat) - 1 <= Len(s)
         /\ SubSeq(s, k, k + Len(pat) - 1) = pat
         /\ \A j \in 1..(k - 1) : SubSeq(s, j, j + Len(pat) - 1) # pat
  ELSE 0

\* s.replace(pat, rep) for a string pattern: the first occurrence only
replaceFirst(s, pat, rep) ==
  IF IndexOf(s, pat) = 0 THEN s
  ELSE SubSeq(s, 1, IndexOf(s, pat) - 1) \o Interp(rep)
         \o SubSeq(s, IndexOf(s, pat) + Len(pat), Len(s))

StatusQuery(fn, url, key) ==
  Request("query", fn, url, key, Undefined, Undefined, Undefined)

\* video/owned/other.ts:133-141, the GET of generateZhipuVideo's check
queryZhipuVideo_v1(c, tid) ==
  << StatusQuery("generateZhipuVideo_v1",
       stripTrailingSlashes(OrDefault(c.baseURL, D_bigmodel))
         \o P_videos \o Interp(tid),
       c.apiKey) >>

\* video/owned/other.ts:233-241, the GET of generateModelScopeVideo's check
queryModelScopeVideo_v1(c, tid) ==
  << StatusQuery("generateModelScopeVideo_v1",
       stripTrailingSlashes(OrDefault(c.baseURL, D_modelscope_v1))
         \o P_tasks \o Interp(tid),
       c.apiKey) >>

\* two status queries sent at once by one invocation of check
queryZhipuVideo_v2_fanout(c, tid) ==
  LET q == StatusQuery("generateZhipuVideo_v2",
             stripTrailingSlashes(OrDefault(c.baseURL, D_bigmodel))
               \o P_videos \o Interp(tid),
             cleanApiKey(c.apiKey))
  IN  << q, q >>

\* video/owned/other.ts:417-425, the GET of generateZhipuVideo's check
\* (second variant)
queryZhipuVideo_v2(c, tid) ==
  << StatusQuery("generateZhipuVideo_v2",
       stripTrailingSlashes(OrDefault(c.baseURL, D_bigmodel))
         \o P_videos \o Interp(tid),
       cleanApiKey(c.apiKey)) >>

\* video/owned/other.ts:519-527, the GET of generateModelScopeVideo's check
\* (second variant)
queryModelScopeVideo_v2(c, tid) ==
  << StatusQuery("generateModelScopeVideo_v2",
       stripTrailingSlashes(OrDefault(c.baseURL, D_modelscope_api_v1))
         \o P_tasks \o Interp(tid),
       cleanApiKey(c.apiKey)) >>

\* video/owned/other.ts:63-65 and 343-345, the GET of the default path's
\* check; queryUrl.replace throws when baseURL holds no "|"
queryOpenAIVideo(fn, c, tid) ==
  IF splitSecond(c.baseURL) = Undefined THEN << >>
  ELSE << StatusQuery(fn,
            replaceFirst(splitSecond(c.baseURL), S_id_placeholder, tid),
            c.apiKey) >>

\* The status queries one invocation of check issues: << request >>, or
\* << >> when check throws before it sends anything.
queryOf(fn, c, tid) ==
  CASE fn = "generateZhipuVideo_v1" -> queryZhipuVideo_v1(c, tid)
    [] fn = "generateModelScopeVideo_v1" -> queryModelScopeVideo_v1(c, tid)
    [] fn = "generateZhipuVideo_v2" -> queryZhipuVideo_v2(c, tid)
    [] fn = "generateModelScopeVideo_v2" -> queryModelScopeVideo_v2(c, tid)
    [] OTHER -> queryOpenAIVideo(fn, c, tid)

\* ------------------------------------------------------------------------
\* pollTask (@/utils/ai/utils), the Poller of the specification
\* ------------------------------------------------------------------------

\* polling intervals after which the poll gives up
PollTimeout == 2

\* longest time a status query takes, in polling intervals
MaxLatency == 1

\* What the poller does with the result r of one invocation of check.
pollTask(r) ==
  IF r.threw THEN "reject"
  ELSE IF r.completed THEN "resolve"
  ELSE IF r.error # "" THEN "reject"
  ELSE "sleep"

\* After the inter-attempt delay: give up once the timeout has been exceeded.
pollExpired(t) == t > PollTimeout

\* ------------------------------------------------------------------------
\* What a function does when the awaited answer arrives
\* ------------------------------------------------------------------------

Finished(o) ==
  [pc |-> "done", reqs |-> << >>, outcome |-> o, taskId |-> Undefined,
   nchecks |-> 0]

DownloadRequest(fn, u) ==
  [kind |-> "download", by |-> fn, url |-> u, auth |-> Undefined,
   key |-> Undefined, model |-> Undefined, prompt |-> Undefined,
   image |-> Undefined]

Downloads(fn, u) ==
  [pc |-> "download", reqs |-> << DownloadRequest(fn, u) >>,
   outcome |-> NoOutcome, taskId |-> Undefined, nchecks |-> 0]

\* the poll resolved, but the function hands back { completed, url }
pollResolved_object(fn, u) == Finished(ReturnedObject(u))

\* `return await pollTask(check)`: the function returns what the poll
\* resolved with (video/owned/other.ts:62, 131, 231, 342, 416, 518)
pollResolved(fn, u) == Finished(ReturnedString(u))

\* the catch block asks for the task's status once more before it throws
pollRejected_requery(fn, e) ==
  [Finished(Threw(e)) EXCEPT
     !.reqs = << StatusQuery(fn, D_bigmodel \o P_videos, Undefined) >>]

\* the catch block always throws its own message
pollRejected_generic(fn, e) == Finished(Threw("generation failed"))

\* The poll rejected with message e. generateZhipuVideo and
\* generateModelScopeVideo catch and rethrow `u.error(error).message ||
\* <their own message>` (video/owned/other.ts:170-174, 270-274, 449-452,
\* 550-553); the default path lets the rejection through.
pollRejected(fn, e) ==
  IF fn \in {"generateZhipuVideo_v1", "generateModelScopeVideo_v1",
             "generateZhipuVideo_v2", "generateModelScopeVideo_v2"}
     /\ e = ""
  THEN Finished(Threw("generation failed"))
  ELSE Finished(Threw(e))

\* `return await pollTask(check)`: pollTask invokes check for the first time.
Polls(fn, c, tid) ==
  IF queryOf(fn, c, tid) = << >>
  THEN [pollRejected(fn, "TypeError") EXCEPT !.taskId = tid, !.nchecks = 1]
  ELSE [pc |-> "query", reqs |-> queryOf(fn, c, tid), outcome |-> NoOutcome,
        taskId |-> tid, nchecks |-> 1]

\* data.data[0].url / data.images[0].url, then the optional download
\* (generateZhipuImage, generateModelScopeImage, Zhipu CogView adapter)
imageUrlResult(fn, i, r, imageUrl) ==
  IF r.fail THEN Finished(Threw("request failed"))
  ELSE IF Falsy(imageUrl) THEN Finished(Threw("bad response format"))
  ELSE IF i.resType = "b64" THEN Downloads(fn, imageUrl)
  ELSE Finished(ReturnedString(imageUrl))

\* image/owned/modelScope.ts:56-91, ModelScope native image adapter
modelScopeNativeResult(fn, i, r) ==
  IF r.fail THEN Finished(Threw("request failed"))
  ELSE IF ~Falsy(r.output_image_url)
    THEN IF i.resType = "b64" THEN Downloads(fn, r.output_image_url)
         ELSE Finished(ReturnedString(r.output_image_url))
  ELSE IF ~Falsy(r.output_image_base64)
    THEN IF startsWith(r.output_image_base64, S_data_image_nocolon)
         THEN Finished(ReturnedString(r.output_image_base64))
         ELSE Finished(ReturnedString(
                S_data_image_png_base64 \o r.output_image_base64))
  ELSE IF ~Falsy(r.output_text)
    THEN Finished(ReturnedString(
           S_data_text_plain_base64 \o toBase64(r.output_text)))
  ELSE Finished(Threw("bad response format"))

\* output.image_base64 probed before output.image_url
modelScopeImageResult_base64First(r) ==
  IF r.fail THEN Finished(Threw("request failed"))
  ELSE IF ~Falsy(r.output_image_base64)
    THEN Finished(ReturnedString(r.output_image_base64))
  ELSE IF ~Falsy(r.output_image_url)
    THEN Finished(ReturnedString(r.output_image_url))
  ELSE IF ~Falsy(r.output_text)
    THEN Finished(ReturnedString(
           S_data_text_plain_base64 \o toBase64(r.output_text)))
  ELSE Finished(Threw("bad response format"))

\* image/owned/modelScope.ts:139-156, ModelScope image-to-image adapter
modelScopeImageResult(r) ==
  IF r.fail THEN Finished(Threw("request failed"))
  ELSE IF ~Falsy(r.output_image_url)
    THEN Finished(ReturnedString(r.output_image_url))
  ELSE IF ~Falsy(r.output_image_base64)
    THEN Finished(ReturnedString(r.output_image_base64))
  ELSE IF ~Falsy(r.output_text)
    THEN Finished(ReturnedString(
           S_data_text_plain_base64 \o toBase64(r.output_text)))
  ELSE Finished(Threw("bad response format"))

\* image/owned/modelScope.ts:310-312, Zhipu GLM-4V adapter;
\* choices[0] of a body without choices, and Buffer.from(undefined), throw
zhipuGLM4VResult(r) ==
  IF r.fail THEN Finished(Threw("request failed"))
  ELSE IF r.choices_content = Undefined THEN Finished(Threw("TypeError"))
  ELSE Finished(ReturnedString(
         S_data_text_plain_base64 \o toBase64(r.choices_content)))

S_empty_object == << "{","}" >>

\* pollTask called with an options object in place of the check function
\* (image/owned/other.ts:324-330): the Poller's contract takes a function,
\* and invoking the object as check throws.
pollTaskOptions(tid) == Finished(Threw("TypeError"))

\* image/owned/other.ts:322-344, ModelScope video adapter
modelScopeVideoResult(r) ==
  IF r.fail THEN Finished(Threw("request failed"))
  ELSE IF ~Falsy(r.task_id) THEN pollTaskOptions(r.task_id)
  ELSE IF ~Falsy(r.output_text)
    THEN Finished(ReturnedString(
           S_data_text_plain_base64 \o toBase64(r.output_text)))
  ELSE IF ~Falsy(r.output_video_url)
    THEN Finished(ReturnedString(r.output_video_url))
  ELSE IF r.has_output
    THEN Finished(ReturnedString(
           S_data_text_plain_base64 \o toBase64(S_empty_object)))
  ELSE Finished(Threw("TypeError"))

\* the AI SDK's generateImage answered (image/owned/other.ts:115-125,
\* unnamed/part_000:114-124)
openAIImageResult(r) ==
  IF r.fail THEN Finished(Threw("request failed"))
  ELSE Finished(ReturnedString(r.image_base64))

\* video/owned/other.ts:123-131 and 407-416, generateZhipuVideo
zhipuVideoSubmitted(fn, c, r) ==
  IF r.fail THEN Finished(Threw("request failed"))
  ELSE IF Falsy(r.id) THEN Finished(Threw("no task id"))
  ELSE Polls(fn, c, r.id)

\* video/owned/other.ts:219-231, generateModelScopeVideo (first variant)
modelScopeVideoSubmitted_v1(fn, c, r) ==
  LET taskId_ == OrDefault(r.id, OrDefault(r.task_id, r.output_task_id))
  IN  IF r.fail THEN Finished(Threw("request failed"))
      ELSE IF ~Falsy(OrDefault(r.video_url, r.url))
        THEN Finished(ReturnedObject(OrDefault(r.video_url, r.url)))
      ELSE IF Falsy(taskId_) THEN Finished(Threw("no task id"))
      ELSE Polls(fn, c, taskId_)

\* video/owned/other.ts:503-518, generateModelScopeVideo (second variant)
modelScopeVideoSubmitted_v2(fn, c, r) ==
  LET taskId_ == OrDefault(r.output_task_id, OrDefault(r.task_id, r.id))
  IN  IF r.fail THEN Finished(Threw("request failed"))
      ELSE IF Falsy(taskId_)
        THEN IF ~Falsy(OrDefault(r.output_video_url, r.video_url))
             THEN Finished(ReturnedObject(
                    OrDefault(r.output_video_url, r.video_url)))
             ELSE Finished(Threw("no task id"))
      ELSE Polls(fn, c, taskId_)

\* video/owned/other.ts:59-62 and 339-342, default path of the dispatchers
openAIVideoSubmitted(fn, c, r) ==
  IF r.fail THEN Finished(Threw("request failed"))
  ELSE IF r.status = "FAILED" THEN Finished(Threw("submit failed"))
  ELSE Polls(fn, c, r.id)

\* the answers the provider of function fn can give to its POST; answers
\* that differ only in fields the function never reads are one answer
SubmitResponsesOf(fn) ==
  CASE fn \in {"generateZhipuImage_v1", "generateModelScopeImage_v1",
               "generateZhipuImage_v2", "generateModelScopeImage_v2",
               "zhipuCogView"} -> ImageUrlResponses
    [] fn \in {"imageOther_v1", "imageOther_v2"} -> SdkImageResponses
    [] fn \in {"modelScopeNative", "modelScopeImage"} -> InferenceResponses
    [] fn = "zhipuGLM4V" -> ChatResponses
    [] fn = "modelScopeVideo" -> VideoInferenceResponses
    [] fn \in {"generateZhipuVideo_v1", "generateZhipuVideo_v2"} ->
         { r \in VideoSubmitResponses :
             /\ r.status = "" /\ ~r.has_output
             /\ \A u \in {r.task_id, r.video_url, r.url} : u = Undefined }
    [] fn \in {"generateModelScopeVideo_v1", "generateModelScopeVideo_v2"} ->
         { r \in VideoSubmitResponses : r.status = "" }
    [] OTHER ->
         { r \in VideoSubmitResponses :
             /\ ~r.has_output
             /\ \A u \in {r.task_id, r.video_url, r.url} : u = Undefined }

\* the continuation of function fn after `await axios.post(...)`
onSubmitResponse(fn, i, c, r) ==
  CASE fn \in {"generateZhipuImage_v1", "generateZhipuImage_v2",
               "zhipuCogView"} -> imageUrlResult(fn, i, r, r.data_url)
    [] fn \in {"generateModelScopeImage_v1", "generateModelScopeImage_v2"} ->
         imageUrlResult(fn, i, r, r.images_url)
    [] fn \in {"imageOther_v1", "imageOther_v2"} -> openAIImageResult(r)
    [] fn = "modelScopeNative" -> modelScopeNativeResult(fn, i, r)
    [] fn = "modelScopeImage" -> modelScopeImageResult(r)
    [] fn = "zhipuGLM4V" -> zhipuGLM4VResult(r)
    [] fn = "modelScopeVideo" -> modelScopeVideoResult(r)
    [] fn \in {"generateZhipuVideo_v1", "generateZhipuVideo_v2"} ->
         zhipuVideoSubmitted(fn, c, r)
    [] fn = "generateModelScopeVideo_v1" -> modelScopeVideoSubmitted_v1(fn, c, r)
    [] fn = "generateModelScopeVideo_v2" -> modelScopeVideoSubmitted_v2(fn, c, r)
    [] OTHER -> openAIVideoSubmitted(fn, c, r)

\* a failed download is requested once more
downloadResult_retry(d) ==
  IF d.fail THEN Downloads("retry", I_url)
  ELSE Finished(ReturnedString(
         S_data_colon \o OrDefault(d.contentType, S_image_png)
           \o S_base64_comma \o toBase64(d.body)))

\* res.headers["content-type"] || "image/png", then the data URI
downloadResult(d) ==
  IF d.fail THEN Finished(Threw("request failed"))
  ELSE Finished(ReturnedString(
         S_data_colon \o OrDefault(d.contentType, S_image_png)
           \o S_base64_comma \o toBase64(d.body)))

\* ------------------------------------------------------------------------
\* Answers and timers
\* ------------------------------------------------------------------------

\* One awaited answer arrived and the function ran on to `step`.
Resumed(step) ==
  /\ pc' = step.pc
  /\ http' = http \o step.reqs
  /\ inflight' = inflight - 1 + Len(step.reqs)
  /\ outcome' = step.outcome
  /\ UNCHANGED << entry, adapter, input, config, acfg, invoked >>

\* The provider answers the POST.
SubmitResponse ==
  /\ pc = "submit"
  /\ \E r \in SubmitResponsesOf(adapter) :
       LET step == onSubmitResponse(adapter, input, acfg, r)
       IN  /\ Resumed(step)
           /\ taskId' = step.taskId
           /\ nchecks' = step.nchecks
           /\ received' = [received EXCEPT !.submit = r]
  /\ UNCHANGED << lastCheck, elapsed >>
  /\ UNCHANGED frameVars

\* The image download answers.
DownloadResponse ==
  /\ pc = "download"
  /\ \E d \in DownloadResponses :
       /\ Resumed(downloadResult(d))
       /\ received' = [received EXCEPT !.download = d]
  /\ UNCHANGED << taskId, nchecks, lastCheck, elapsed >>
  /\ UNCHANGED frameVars

\* The status query answers after d intervals; check returns its result
\* and pollTask resolves, rejects or starts the inter-attempt delay.
QueryResponse ==
  /\ pc = "query"
  /\ \E q \in QueryResponsesOf(adapter), d \in 0..MaxLatency :
       LET res == checkOf(adapter, q)
           todo == pollTask(res)
       IN  /\ lastCheck' = res
           /\ received' = [received EXCEPT !.query = q]
           /\ elapsed' = elapsed + d
           /\ Resumed(
                IF todo = "resolve" THEN pollResolved(adapter, res.url)
                ELSE IF todo = "reject" THEN pollRejected(adapter, res.error)
                ELSE [Finished(NoOutcome) EXCEPT !.pc = "sleep"])
  /\ UNCHANGED << taskId, nchecks >>
  /\ UNCHANGED frameVars

\* The inter-attempt delay is over: pollTask gives up or invokes check again.
SleepElapsed ==
  /\ pc = "sleep"
  /\ elapsed' = elapsed + 1
  /\ IF pollExpired(elapsed + 1)
     THEN /\ pc' = "done"
          /\ outcome' = pollRejected(adapter, "timeout").outcome
          /\ UNCHANGED << http, inflight, nchecks >>
     ELSE /\ nchecks' = nchecks + 1
          /\ IF queryOf(adapter, acfg, taskId) = << >>
             THEN /\ pc' = "done"
                  /\ outcome' = pollRejected(adapter, "TypeError").outcome
                  /\ UNCHANGED << http, inflight >>
             ELSE /\ pc' = "query"
                  /\ http' = http \o queryOf(adapter, acfg, taskId)
                  /\ inflight' = inflight + Len(queryOf(adapter, acfg, taskId))
                  /\ outcome' = outcome
  /\ UNCHANGED << entry, adapter, input, config, acfg, invoked, taskId,
                  lastCheck, received >>
  /\ UNCHANGED frameVars

\* ------------------------------------------------------------------------
\* Zhipu video analysis adapter (video/owned/bigModel.ts)
\* ------------------------------------------------------------------------

\* video/owned/bigModel.ts:16-22, the message of the check that fails, ""
\* when all pass
zhipuVideoAnalysisChecks(i, c) ==
  IF Falsy(c.apiKey) THEN "missing apiKey"
  ELSE IF OrDefault(c.model, << >>) \notin {M_glm_4v, M_glm_4v_plus}
    THEN "unsupported model"
  ELSE IF ~i.videoFile /\ ~i.framesGiven THEN "missing video"
  ELSE ""

ExtractRequest ==
  [kind |-> "extract", by |-> "zhipuVideoAnalysis",
   url |-> P_extract_video_frames, auth |-> Undefined, key |-> Undefined,
   model |-> Undefined, prompt |-> Undefined, image |-> Undefined]

DecimalDigits == << "0","1","2","3","4","5","6","7","8","9" >>

\* `${n}` for n below ten
DecimalString(n) == << DecimalDigits[n + 1] >>

RECURSIVE join(_, _)
\* Array.prototype.join
join(list, sep) ==
  IF Len(list) = 0 THEN << >>
  ELSE IF Len(list) = 1 THEN list[1]
  ELSE list[1] \o sep \o join(Tail(list), sep)

\* video/owned/bigModel.ts:69
summary(results) ==
  S_summary_head \o DecimalString(Len(results)) \o S_summary_mid
    \o join(results, S_summary_sep)

\* the loop goes through the frames from the last to the first
analyseFrames_lastFirst(i, c, list, results) ==
  IF Len(list) = 0 THEN Throws("no frames")
  ELSE IF Len(results) = Len(list)
  THEN [Throws("") EXCEPT
          !.outcome = ReturnedString(
                        S_data_text_plain_base64 \o toBase64(summary(results)))]
  ELSE LET step == zhipuGLM4V(
                     [NoInput EXCEPT
                        !.imageBase64 = << list[Len(list) - Len(results)] >>,
                        !.prompt = OrDefault(i.prompt, S_default_frame_prompt)],
                     c)
       IN  [step EXCEPT !.pc = IF @ = "submit" THEN "frame" ELSE @]

\* video/owned/bigModel.ts:46-71: the empty list throws; otherwise the loop
\* calls the image adapter for the next frame, or, past the last frame, the
\* summary is returned
analyseFrames(i, c, list, results) ==
  IF Len(list) = 0 THEN Throws("no frames")
  ELSE IF Len(results) = Len(list)
  THEN [Throws("") EXCEPT
          !.outcome = ReturnedString(
                        S_data_text_plain_base64 \o toBase64(summary(results)))]
  ELSE LET step == zhipuGLM4V(
                     [NoInput EXCEPT
                        !.imageBase64 = << list[Len(results) + 1] >>,
                        !.prompt = OrDefault(i.prompt, S_default_frame_prompt)],
                     c)
       IN  [step EXCEPT !.pc = IF @ = "submit" THEN "frame" ELSE @]

\* video/owned/bigModel.ts:12-44
zhipuVideoAnalysis(i, c) ==
  IF zhipuVideoAnalysisChecks(i, c) # ""
  THEN Throws(zhipuVideoAnalysisChecks(i, c))
  ELSE IF i.videoFile
  THEN [Throws("") EXCEPT !.pc = "extract", !.adapter = "zhipuVideoAnalysis",
                          !.acfg = c, !.reqs = << ExtractRequest >>,
                          !.outcome = NoOutcome]
  ELSE analyseFrames(i, c, i.frameBase64List, << >>)

\* The caller invokes the Zhipu video analysis adapter.
CallZhipuVideoAnalysis ==
  \E i \in FrameAnalysisInputs, c \in FrameAnalysisConfigs :
    LET step == zhipuVideoAnalysis(i, c)
    IN  /\ pc = "idle"
        /\ entry' = "zhipuVideoAnalysis"
        /\ input' = i
        /\ config' = c
        /\ pc' = step.pc
        /\ adapter' = step.adapter
        /\ acfg' = step.acfg
        /\ invoked' = << >>
        /\ http' = step.reqs
        /\ inflight' = Len(step.reqs)
        /\ outcome' = step.outcome
        /\ frameBase64List' = IF i.videoFile THEN << >> ELSE i.frameBase64List
        /\ frameResults' = << >>
        /\ UNCHANGED << taskId, nchecks, lastCheck, elapsed, received >>

\* video/owned/bigModel.ts:28-48 after the await: frameResponse.data.frames
\* becomes the list; reading the length of an absent list throws
extracted(i, c, e) ==
  IF e.fail THEN Throws("request failed")
  ELSE IF ~e.has_frames THEN Throws("TypeError")
  ELSE analyseFrames(i, c, e.frames, << >>)

\* The frame extraction answers.
ExtractResponse ==
  /\ pc = "extract"
  /\ \E e \in ExtractResponses :
       LET step == extracted(input, config, e)
       IN  /\ pc' = step.pc
           /\ adapter' = step.adapter
           /\ acfg' = step.acfg
           /\ http' = http \o step.reqs
           /\ inflight' = inflight - 1 + Len(step.reqs)
           /\ outcome' = step.outcome
           /\ frameBase64List' =
                IF e.fail \/ ~e.has_frames THEN << >> ELSE e.frames
           /\ received' = [received EXCEPT !.extract = e]
  /\ UNCHANGED << entry, input, config, invoked, taskId, nchecks, lastCheck,
                  elapsed, frameResults >>

\* video/owned/bigModel.ts:65-66: frameResult.split(",")[1] decoded
frameText(frameResult) ==
  fromBase64(splitCommaSecond(frameResult))

\* The image adapter answered for one frame (video/owned/bigModel.ts:54-67):
\* its error ends the call, its result is pushed and the loop goes on.
frameAnalysed(i, c, list, results, r) ==
  LET res == zhipuGLM4VResult(r)
  IN  IF res.outcome.kind = "throw" THEN Throws(res.outcome.err)
      ELSE analyseFrames(i, c, list,
                         Append(results, frameText(res.outcome.val)))

\* The chat completion for the current frame answers.
FrameResponse ==
  /\ pc = "frame"
  /\ \E r \in ChatResponses :
       LET step == frameAnalysed(input, config, frameBase64List,
                                 frameResults, r)
       IN  /\ pc' = step.pc
           /\ adapter' = step.adapter
           /\ acfg' = step.acfg
           /\ http' = http \o step.reqs
           /\ inflight' = inflight - 1 + Len(step.reqs)
           /\ outcome' = step.outcome
           /\ frameResults' =
                IF zhipuGLM4VResult(r).outcome.kind = "throw" THEN frameResults
                ELSE Append(frameResults,
                            frameText(zhipuGLM4VResult(r).outcome.val))
           /\ received' = [received EXCEPT !.submit = r,
                                        !.frames = Append(@, r)]
  /\ UNCHANGED << entry, input, config, invoked, taskId, nchecks, lastCheck,
                  elapsed, frameBase64List >>

\* No call has been made.
Init ==
  /\ pc = "idle"
  /\ entry = "none"
  /\ adapter = "none"
  /\ input = NoInput
  /\ config = NoConfig
  /\ acfg = NoConfig
  /\ invoked = << >>
  /\ http = << >>
  /\ inflight = 0
  /\ taskId = Undefined
  /\ nchecks = 0
  /\ lastCheck = NoCheck
  /\ elapsed = 0
  /\ received = NoAnswers
  /\ frameBase64List = << >>
  /\ frameResults = << >>
  /\ outcome = NoOutcome

Next ==
  \/ CallImageOther_v1
  \/ CallImageOther_v2
  \/ CallVideoOther_v1
  \/ CallVideoOther_v2
  \/ CallModelScopeNative
  \/ CallModelScopeImage
  \/ CallZhipuCogView
  \/ CallZhipuGLM4V
  \/ CallModelScopeVideo
  \/ CallZhipuVideoAnalysis
  \/ SubmitResponse
  \/ DownloadResponse
  \/ ExtractResponse
  \/ FrameResponse
  \/ QueryResponse
  \/ SleepElapsed

Spec == Init /\ [][Next]_vars

\* ------------------------------------------------------------------------
\* Properties
\* ------------------------------------------------------------------------
ImageDispatchers == {"imageOther_v1", "imageOther_v2"}

VideoDispatchers == {"videoOther_v1", "videoOther_v2"}

Dispatchers == ImageDispatchers \cup VideoDispatchers

ConfigErrors == {"missing model", "missing apiKey", "missing baseURL"}

\* the call ended in a configuration error
ConfigFailed ==
  pc = "done" /\ outcome.kind = "throw" /\ outcome.err \in ConfigErrors

\* the Zhipu test of the dispatcher that was called, on its configuration
ZhipuTest ==
  CASE entry = "imageOther_v1" -> isZhipuImage_v1(config.model)
    [] entry = "imageOther_v2" -> isZhipuImage_v2(config.model)
    [] entry = "videoOther_v1" -> isZhipuVideo_v1(config.model)
    [] entry = "videoOther_v2" ->
         isZhipuVideo_v2(OrDefault(config.model, << >>))
    [] OTHER -> FALSE

\* the ModelScope test of the dispatcher that was called
ModelScopeTest ==
  CASE entry = "imageOther_v1" -> isModelScopeImage_v1(config.model)
    [] entry = "imageOther_v2" -> isModelScopeImage_v2(config.model)
    [] entry = "videoOther_v1" -> isModelScopeVideo_v1(config.model)
    [] entry = "videoOther_v2" ->
         isModelScopeVideo_v2(OrDefault(config.model, << >>), config.baseURL)
    [] OTHER -> FALSE

\* C1: a dispatcher call that passes validation invokes exactly one adapter:
\* Zhipu when the Zhipu test holds, otherwise ModelScope when the ModelScope
\* test holds, otherwise the default OpenAI-compatible path; a call that
\* fails validation invokes none, and no state of a call, failed or not,
\* has a second adapter invoked.
C1_DispatchOrder ==
  (entry \in Dispatchers /\ pc # "idle") =>
    /\ Len(invoked) <= 1
    /\ IF ConfigFailed THEN invoked = << >>
       ELSE IF ZhipuTest THEN invoked = << "zhipu" >>
       ELSE IF ModelScopeTest THEN invoked = << "modelscope" >>
       ELSE invoked = << "default" >>

\* a model id that passes both tests went to Zhipu, whose request failed
C1_Witness ==
  /\ entry = "imageOther_v1"
  /\ config.model = M_org_cogview
  /\ ZhipuTest /\ ModelScopeTest
  /\ invoked = << "zhipu" >>
  /\ pc = "done"
  /\ outcome.kind = "throw"
  /\ Len(http) = 1

\* C2: with a non-empty apiKey the image dispatcher sends "cogview-4" to the
\* Zhipu adapter, "Tongyi-MAI/Z-Image-Turbo" to the ModelScope adapter and,
\* when a baseURL is configured, "gpt-image-1" to the default path.
C2_ImageRouting ==
  (entry \in ImageDispatchers /\ pc # "idle" /\ ~Falsy(config.apiKey)) =>
    /\ config.model = M_cogview_4 => invoked = << "zhipu" >>
    /\ config.model = M_Tongyi_Z_Image => invoked = << "modelscope" >>
    /\ (config.model = M_gpt_image_1 /\ ~Falsy(config.baseURL)
          /\ trim(config.baseURL) # << >>)
         => invoked = << "default" >>

\* "cogview-4" reached the Zhipu adapter of the second dispatcher variant
C2_Witness ==
  /\ entry = "imageOther_v2"
  /\ config.model = M_cogview_4
  /\ ~Falsy(config.apiKey)
  /\ invoked = << "zhipu" >>
  /\ adapter = "generateZhipuImage_v2"
  /\ Len(http) = 1

\* the requests sent to a provider (submissions and status queries)
ProviderRequests ==
  { k \in 1..Len(http) : http[k].kind \in {"submit", "query"} }

QueryCount == Cardinality({ k \in 1..Len(http) : http[k].kind = "query" })

\* the call reached the default OpenAI-compatible path of a dispatcher
ReachesDefault ==
  /\ entry \in Dispatchers
  /\ ~Falsy(config.apiKey)
  /\ (entry = "videoOther_v2" \/ ~Falsy(config.model))
  /\ ~ZhipuTest
  /\ ~ModelScopeTest

\* C3: a dispatcher call with an absent apiKey, and a dispatcher call that
\* reaches the default path with an absent or blank baseURL, ends in a
\* configuration error without any HTTP request having been issued.
C3_ConfigErrors ==
  (entry \in Dispatchers /\ pc # "idle") =>
    /\ Falsy(config.apiKey) => (ConfigFailed /\ http = << >>)
    /\ (ReachesDefault
          /\ (Falsy(config.baseURL) \/ trim(config.baseURL) = << >>))
         => (ConfigFailed /\ http = << >>)

\* the first image dispatcher, on the default path with the blank baseURL
\* "  ", has sent a request
C3_Witness ==
  /\ entry = "imageOther_v1"
  /\ config.model = M_gpt_image_1
  /\ config.apiKey = K_Bearer_abc123
  /\ config.baseURL = U_blank
  /\ ReachesDefault
  /\ pc = "submit"
  /\ Len(http) = 1

\* C4: every provider request that has been issued was issued with a
\* non-empty model id and a non-empty API key.
C4_ModelAndKey ==
  \A k \in ProviderRequests :
    /\ ~Falsy(config.model)
    /\ ~Falsy(http[k].key)

\* the ModelScope image-to-image adapter, given neither model nor apiKey,
\* has sent a request with the header "Bearer undefined"
C4_Witness ==
  /\ entry = "modelScopeImage"
  /\ config.model = Undefined
  /\ config.apiKey = Undefined
  /\ Len(http) = 1
  /\ http[1].kind = "submit"
  /\ http[1].auth = S_Bearer_ \o S_undefined

GenerationEntries ==
  ImageDispatchers \cup {"modelScopeNative", "zhipuCogView"}

ReferenceImageEntries == {"modelScopeImage", "zhipuGLM4V"}

\* C5: no HTTP request is issued for an image generation call without a
\* prompt, nor for an image-to-image or image-analysis call without a
\* reference image.
C5_RequiredInputs ==
  /\ (entry \in GenerationEntries /\ Falsy(input.prompt)) => http = << >>
  /\ (entry \in ReferenceImageEntries /\ input.imageBase64 = << >>
        /\ Falsy(input.imageUrl))
       => http = << >>

\* the first image dispatcher, called without a prompt, has sent the
\* request of the Zhipu adapter
C5_Witness ==
  /\ entry = "imageOther_v1"
  /\ config.model = M_cogview_4
  /\ input.prompt = Undefined
  /\ invoked = << "zhipu" >>
  /\ Len(http) = 1
  /\ http[1].kind = "submit"

\* C6: when an invocation of check returns completed = true, the Nth one
\* after N - 1 that returned neither completed nor an error, the call
\* resolves with the URL of that invocation after exactly N invocations and
\* N status queries, and check is never invoked again.
C6_PollResolves ==
  /\ [](lastCheck.completed =>
          /\ pc = "done"
          /\ outcome = ReturnedString(lastCheck.url)
          /\ nchecks >= 1
          /\ QueryCount = nchecks
          /\ inflight = 0)
  /\ [][lastCheck.completed => (nchecks' = nchecks /\ http' = http)]_vars

\* the second invocation of check completed and its URL was returned
C6_Witness ==
  /\ nchecks = 2
  /\ QueryCount = 2
  /\ lastCheck.completed
  /\ lastCheck.url = V_url1
  /\ pc = "done"
  /\ outcome = ReturnedString(V_url1)

\* C7: when an invocation of check, the first or a later one, returns a
\* non-empty error, the call fails with that error and check is never
\* invoked again.
C7_PollFails ==
  /\ []((lastCheck.error # "" /\ ~lastCheck.threw) =>
          /\ pc = "done"
          /\ outcome = Threw(lastCheck.error)
          /\ nchecks >= 1
          /\ QueryCount = nchecks
          /\ inflight = 0)
  /\ [][(lastCheck.error # "" /\ ~lastCheck.threw)
          => (nchecks' = nchecks /\ http' = http)]_vars

\* the second invocation of check returned completed = false with an error
C7_Witness ==
  /\ nchecks = 2
  /\ QueryCount = 2
  /\ ~lastCheck.completed
  /\ ~lastCheck.threw
  /\ lastCheck.error = "task failed"
  /\ pc = "done"
  /\ outcome = Threw("task failed")

\* Every invocation of check returns (its status query is answered or
\* fails) and the timer of the inter-attempt delay fires.
LiveSpec ==
  Spec /\ WF_vars(QueryResponse) /\ WF_vars(SleepElapsed)

\* C8: a poll whose every invocation of check returns completed = false
\* with no error eventually fails with the timeout error, which the call
\* returns to its caller.
C8_PollTimesOut ==
  (<>(pc = "query") /\ [](lastCheck = Pending))
    => <>(pc = "done" /\ outcome = Threw("timeout"))

\* check was invoked twice, never completed, and the call timed out
C8_Witness ==
  /\ nchecks >= 2
  /\ QueryCount = nchecks
  /\ lastCheck = Pending
  /\ pc = "done"
  /\ outcome = Threw("timeout")
  /\ elapsed > PollTimeout

\* C9: at most one request is in flight at any time, and a status query
\* after the first is issued only after the one before it was answered with
\* a non-terminal result and the inter-attempt delay has elapsed.
C9_Sequential ==
  /\ [](inflight <= 1)
  /\ [][QueryCount' > QueryCount =>
          /\ QueryCount' = QueryCount + 1
          /\ inflight' = 1
          /\ QueryCount >= 1 =>
               /\ pc = "sleep"
               /\ inflight = 0
               /\ lastCheck = Pending
               /\ elapsed' > elapsed]_vars

\* the second status query is in flight, after the first was answered
C9_Witness ==
  /\ QueryCount = 2
  /\ nchecks = 2
  /\ inflight = 1
  /\ pc = "query"
  /\ lastCheck = Pending
  /\ elapsed >= 1

\* C10: on every submission and status query the Authorization header is
\* "Bearer " followed by the supplied key without its leading "Bearer"
\* prefix and surrounding whitespace.
C10_BearerHeader ==
  \A k \in ProviderRequests :
    ~Falsy(config.apiKey) =>
      http[k].auth = S_Bearer_ \o trim(replaceBearer(config.apiKey))

\* the default path of the first video dispatcher has sent the key
\* "Bearer   abc123  " as "Bearer Bearer   abc123  "
C10_Witness ==
  /\ entry = "videoOther_v1"
  /\ invoked = << "default" >>
  /\ config.apiKey = K_Bearer_abc123
  /\ Len(http) = 1
  /\ http[1].kind = "submit"
  /\ http[1].auth = S_Bearer_ \o K_Bearer_abc123
  /\ http[1].auth # H_Bearer_abc123

\* s holds "//" elsewhere than after the colon of its scheme
DoubleSlash(s) ==
  \E k \in 2..(Len(s) - 1) : s[k] = "/" /\ s[k + 1] = "/" /\ s[k - 1] # ":"

EndsWithSlash(s) == Len(s) > 0 /\ s[Len(s)] = "/"

\* the requests whose URL the code of an adapter builds from a base URL and
\* a path (the default paths hand the base URL to the AI SDK, or use it
\* whole)
PathRequests == { k \in ProviderRequests : http[k].by \notin Dispatchers }

\* C11: when the supplied base URL ends in "/", the URL of every request an
\* adapter builds from it starts with the base URL without its trailing
\* slashes, followed by the path, and holds no "//".
C11_TrailingSlashes ==
  \A k \in PathRequests :
    (~Falsy(config.baseURL) /\ EndsWithSlash(trim(config.baseURL))) =>
      /\ startsWith(http[k].url,
                    stripTrailingSlashes(trim(config.baseURL)) \o S_slash)
      /\ ~DoubleSlash(http[k].url)

\* the ModelScope image-to-image adapter, given the base URL "http://x//",
\* has posted to "http://x///models/..."
C11_Witness ==
  /\ entry = "modelScopeImage"
  /\ config.baseURL = U_host_slash
  /\ Len(http) = 1
  /\ startsWith(http[1].url, U_host_slash \o P_models)
  /\ DoubleSlash(http[1].url)

\* the submissions that carry the first reference image as base64 (the
\* default image path hands the images to the AI SDK as they are)
ImageSubmissions ==
  { k \in ProviderRequests :
      /\ http[k].kind = "submit"
      /\ http[k].by \notin ImageDispatchers
      /\ Len(input.imageBase64) > 0 }

\* the image payload of a request: GLM-4V wraps it in a data URI of its own
PayloadOf(r) ==
  IF r.by = "zhipuGLM4V" /\ startsWith(r.image, S_data_image_jpeg_base64)
  THEN SubSeq(r.image, Len(S_data_image_jpeg_base64) + 1, Len(r.image))
  ELSE r.image

\* C12: the image payload of a request is the first reference image without
\* its "data:image/<type>;base64," prefix: "data:image/png;base64,AAA=" is
\* forwarded as "AAA=", and "AAA=" is forwarded unchanged.
C12_BareBase64 ==
  \A k \in ImageSubmissions :
    /\ input.imageBase64[1] = B_data_png => PayloadOf(http[k]) = B_bare
    /\ input.imageBase64[1] = B_bare => PayloadOf(http[k]) = B_bare

\* the ModelScope image-to-image adapter forwarded the data URI whole
C12_Witness ==
  /\ entry = "modelScopeImage"
  /\ input.imageBase64 = << B_data_png >>
  /\ Len(http) = 1
  /\ http[1].kind = "submit"
  /\ http[1].image = B_data_png

\* "data:text/plain;base64," followed by the base64 encoding of "hi"
E_text_hi == << "d","a","t","a",":","t","e","x","t","/","p","l","a","i","n",";","b","a","s","e","6","4",",","a","G","k","=" >>

\* the submission has been answered, and not by a failure
Answered ==
  pc \notin {"idle", "submit"} /\ http # << >> /\ ~received.submit.fail

\* the call downloads, or has downloaded, the image at URL u
DownloadOf(u) ==
  /\ \E k \in 1..Len(http) : http[k].kind = "download" /\ http[k].url = u
  /\ pc = "download" \/ received.download.fail
     \/ (outcome.kind = "return" /\ received.download.body # << >>)

\* C13: the ModelScope adapters take their result from output.image_url
\* when it is present, otherwise from output.image_base64 when it is
\* present, otherwise from output.text, which they return as
\* "data:text/plain;base64," followed by the base64 encoding of the text.
C13_ProbeOrder ==
  (entry \in {"modelScopeNative", "modelScopeImage"} /\ Answered) =>
    LET r == received.submit
    IN  IF ~Falsy(r.output_image_url)
        THEN \/ outcome = ReturnedString(r.output_image_url)
             \/ DownloadOf(r.output_image_url)
        ELSE IF ~Falsy(r.output_image_base64)
        THEN /\ outcome.kind = "return"
             /\ outcome.val \in
                  { r.output_image_base64,
                    S_data_image_png_base64 \o r.output_image_base64 }
        ELSE ~Falsy(r.output_text) =>
               (r.output_text = T_text /\ outcome = ReturnedString(E_text_hi))

\* a response with all three fields gave the image URL
C13_Witness ==
  /\ entry = "modelScopeImage"
  /\ Answered
  /\ received.submit.output_image_url = I_url
  /\ received.submit.output_image_base64 = B_bare
  /\ received.submit.output_text = T_text
  /\ outcome = ReturnedString(I_url)

\* errors that report a response of the wrong shape
FormatErrors == { "bad response format", "no task id" }

\* submit answers that carry none of the fields any adapter reads
UnrecognisedShapes == { NoResp, [NoResp EXCEPT !.has_output = TRUE] }

\* C14: for every adapter, a well-delivered response that carries none of
\* the recognised result fields ends the call with a response-format error;
\* the call never returns a value built from such a response.
C14_UnrecognisedShape ==
  (Answered /\ received.submit \in UnrecognisedShapes) =>
    /\ pc = "done"
    /\ outcome.kind = "throw"
    /\ outcome.err \in FormatErrors

\* the ModelScope video adapter returned the serialised empty output object
C14_Witness ==
  /\ entry = "modelScopeVideo"
  /\ Answered
  /\ received.submit = [NoResp EXCEPT !.has_output = TRUE]
  /\ outcome = ReturnedString(S_data_text_plain_base64 \o toBase64(S_empty_object))

\* the image URL the running function reads from the submit answer
ImageUrlRead ==
  CASE adapter \in {"generateZhipuImage_v1", "generateZhipuImage_v2",
                    "zhipuCogView"} -> received.submit.data_url
    [] adapter \in {"generateModelScopeImage_v1",
                    "generateModelScopeImage_v2"} -> received.submit.images_url
    [] adapter \in {"modelScopeNative", "modelScopeImage"} ->
         received.submit.output_image_url
    [] OTHER -> Undefined

\* the provider answered with an image URL and no other result field
UrlOnly ==
  /\ Answered
  /\ ~Falsy(ImageUrlRead)
  /\ Falsy(received.submit.output_image_base64)
  /\ Falsy(received.submit.output_text)

DownloadRequests == { k \in DOMAIN http : http[k].kind = "download" }

\* C15: with resType "b64" and an answer that carries only an image URL,
\* the adapter issues exactly one download GET, to that URL and after the
\* submit request, and what it returns is the data URI built from the
\* downloaded bytes with the content-type header (image/png when the header
\* is absent) as MIME type; it never returns the bare URL.
C15_DownloadsForB64 ==
  (input.resType = "b64" /\ UrlOnly) =>
    /\ Cardinality(DownloadRequests) = 1
    /\ \A k \in DownloadRequests :
         /\ http[k].url = ImageUrlRead
         /\ \E j \in 1..(k - 1) : http[j].kind = "submit"
    /\ outcome.kind = "return" =>
         outcome = ReturnedString(
           S_data_colon
             \o (IF received.download.contentType = Undefined
                 THEN S_image_png ELSE received.download.contentType)
             \o S_base64_comma \o toBase64(received.download.body))
    /\ outcome # ReturnedString(ImageUrlRead)

\* the image-to-image adapter handed back the bare URL although resType is
\* "b64"
C15_Witness ==
  /\ entry = "modelScopeImage"
  /\ input.resType = "b64"
  /\ UrlOnly
  /\ DownloadRequests = { }
  /\ outcome = ReturnedString(I_url)

S_http_scheme == << "h","t","t","p",":","/","/" >>

S_https_scheme == << "h","t","t","p","s",":","/","/" >>

IsBareUrl(s) == startsWith(s, S_http_scheme) \/ startsWith(s, S_https_scheme)

IsDataUri(s) == startsWith(s, S_data_colon)

\* C16: whatever a call returns is a string, and that string is a bare URL
\* or a data URI; no call returns an object or bare base64 text.
C16_ReturnsUrlOrDataUri ==
  outcome.kind = "return" =>
    /\ outcome.type = "string"
    /\ IsBareUrl(outcome.val) \/ IsDataUri(outcome.val)

\* generateModelScopeVideo handed the caller { completed: true, url } for a
\* submit answer that already carries the video URL
C16_Witness ==
  /\ adapter \in {"generateModelScopeVideo_v1", "generateModelScopeVideo_v2"}
  /\ Answered
  /\ ~Falsy(received.submit.video_url)
  /\ outcome = ReturnedObject(received.submit.video_url)

AllowListEntries == { "zhipuCogView", "zhipuGLM4V", "zhipuVideoAnalysis" }

AllowList(e) ==
  IF e = "zhipuCogView" THEN supportedModels ELSE { M_glm_4v, M_glm_4v_plus }

\* an allow-list adapter was called with a model id that is not on its list
OutsideList ==
  /\ entry \in AllowListEntries
  /\ ~Falsy(config.model)
  /\ config.model \notin AllowList(entry)

\* the checks an adapter makes before it looks at its allow-list all pass
EarlierChecksPass ==
  /\ entry \in {"zhipuCogView", "zhipuVideoAnalysis"} => ~Falsy(config.apiKey)
  /\ entry = "zhipuCogView" => ~Falsy(input.prompt)

\* C17 as stated: every call of an allow-list adapter with a model id
\* outside its list fails with the unsupported-model error and issues no
\* HTTP request.
C17_UnsupportedModel ==
  OutsideList =>
    /\ pc = "done"
    /\ http = << >>
    /\ outcome = Threw("unsupported model")

\* C17, amended: a call of an allow-list adapter with a model id outside
\* its list fails before any HTTP request is issued; the error is the
\* unsupported-model error when the checks that precede the allow-list pass
\* (API key for CogView and video analysis, prompt for CogView), and the
\* configuration error of the first failing check otherwise.
C17_UnsupportedModelAmended ==
  OutsideList =>
    /\ pc = "done"
    /\ http = << >>
    /\ outcome.kind = "throw"
    /\ IF EarlierChecksPass THEN outcome.err = "unsupported model"
       ELSE outcome.err \in {"missing apiKey", "missing prompt"}

\* CogView was called with a model id off its list and without a prompt,
\* and reported the missing prompt
C17_Witness ==
  /\ entry = "zhipuCogView"
  /\ OutsideList
  /\ ~Falsy(config.apiKey)
  /\ Falsy(input.prompt)
  /\ http = << >>
  /\ outcome = Threw("missing prompt")

\* some HTTP request of the call has failed
AnyFailed ==
  \/ received.submit.fail
  \/ received.query.fail
  \/ received.download.fail
  \/ received.extract.fail

SubmitCount == Cardinality({ k \in 1..Len(http) : http[k].kind = "submit" })

PollEnded == nchecks >= 1 /\ pc = "done"

\* C19: once the poll for a task has reached a terminal outcome (resolved,
\* failed or timed out) no status query is outstanding and none is issued,
\* neither in the step that ends the poll nor afterwards; this includes a
\* poll whose last status query was answered after the deadline had passed.
C19_HandleLifetime ==
  /\ [](PollEnded => (inflight = 0 /\ outcome.kind # "none"))
  /\ [](pc = "query" => (inflight = 1 /\ outcome.kind = "none"))
  /\ [][PollEnded' => QueryCount' = QueryCount]_vars

\* the second status query was answered after the deadline, its task still
\* pending; the poll then timed out without a third query
C19_Witness ==
  /\ PollEnded
  /\ QueryCount = 2
  /\ elapsed > PollTimeout + 1
  /\ lastCheck = Pending
  /\ ~received.query.fail
  /\ outcome = Threw("timeout")

\* a status query of the call has been answered, and well
QueryAnswered ==
  /\ QueryCount >= 2 \/ (QueryCount = 1 /\ pc # "query")
  /\ ~received.query.fail

\* the three outcomes of a check callback
CompletedWithUrl(r) == r.completed /\ ~Falsy(r.url) /\ r.error = ""

ErrorResult(r) == ~r.completed /\ r.error # ""

PendingResult(r) == ~r.completed /\ r.error = ""

\* C20: the result of every check callback for a well-delivered status
\* response is one of completed-with-URL, error and pending; a status string
\* that no callback knows gives an error, which ends the poll with a
\* failure, and a call whose poll resolved returns a URL.
C20_CheckOutcomes ==
  QueryAnswered =>
    /\ \/ CompletedWithUrl(lastCheck)
       \/ ErrorResult(lastCheck)
       \/ PendingResult(lastCheck)
    /\ statusOf(received.query) \in {"", "CANCELED"} =>
         /\ ErrorResult(lastCheck)
         /\ pc = "done"
         /\ outcome.kind = "throw"
    /\ outcome.kind = "return" => ~Falsy(outcome.val)

\* the default path's callback completed on SUCCESS with a results entry
\* that has no url, and the call returned undefined
C20_Witness ==
  /\ adapter \in {"videoOther_v1", "videoOther_v2"}
  /\ QueryAnswered
  /\ received.query.status = "SUCCESS"
  /\ received.query.results_len = 1
  /\ received.query.results_url = Undefined
  /\ lastCheck = Completed(Undefined)
  /\ outcome = ReturnedString(Undefined)

\* the analysis requests of the call, in the order they were issued
FrameRequests == SelectSeq(http, LAMBDA r : r.kind = "submit")

\* the base64 payload of a frame, with or without a data-URI prefix
FramePayload(f) == IF FirstComma(f) = 0 THEN f ELSE splitCommaSecond(f)

\* the analysis of a frame failed: the request failed or the answer has no
\* text
FrameFailed(r) == r.fail \/ Falsy(r.choices_content)

\* the text a summary of the given frame answers has to carry
ExpectedSummary(answers) ==
  S_summary_head \o DecimalString(Len(answers)) \o S_summary_mid
    \o join([k \in 1..Len(answers) |-> answers[k].choices_content],
            S_summary_sep)

\* C21: the video analysis adapter requests the frames one at a time in
\* list order; it returns only when every frame was analysed, and then the
\* summary names the number of frames and carries one result per frame in
\* frame order; when the analysis of a frame fails no later frame is
\* requested and the call throws; an empty frame list throws before any
\* analysis request.
C21_FrameByFrame ==
  entry = "zhipuVideoAnalysis" =>
    /\ inflight <= 1
    /\ Len(FrameRequests) <= Len(frameBase64List)
    /\ Len(FrameRequests) <= Len(received.frames) + 1
    /\ \A k \in 1..Len(FrameRequests) :
         splitCommaSecond(FrameRequests[k].image)
           = FramePayload(frameBase64List[k])
    /\ outcome.kind = "return" =>
         /\ Len(received.frames) = Len(frameBase64List)
         /\ Len(FrameRequests) = Len(frameBase64List)
         /\ \A k \in 1..Len(received.frames) : ~FrameFailed(received.frames[k])
         /\ outcome = ReturnedString(
              S_data_text_plain_base64
                \o toBase64(ExpectedSummary(received.frames)))
    /\ (\E k \in 1..Len(received.frames) : FrameFailed(received.frames[k])) =>
         /\ pc = "done"
         /\ outcome.kind = "throw"
         /\ Len(FrameRequests) = Len(received.frames)
         /\ FrameFailed(received.frames[Len(received.frames)])
    /\ (pc # "extract" /\ frameBase64List = << >>) =>
         /\ FrameRequests = << >>
         /\ pc = "done"
         /\ outcome.kind = "throw"

\* two frames were analysed with different answers and the summary was
\* returned
C21_Witness ==
  /\ entry = "zhipuVideoAnalysis"
  /\ frameBase64List = << B_bare, B_bare2 >>
  /\ Len(received.frames) = 2
  /\ received.frames[1].choices_content = T_text2
  /\ received.frames[2].choices_content = T_text
  /\ outcome.kind = "return"

\* the model id carries no keyword of the Zhipu family, in any letter case
NoZhipuKeyword(model) ==
  /\ ~includes(toLowerCase(model), S_cogview)
  /\ ~includes(toLowerCase(model), S_glm_image)
  /\ ~includes(toLowerCase(model), S_cogvideo)

\* a dispatcher was called with an API key and a model id that contains "/"
\* and no Zhipu keyword
SlashModelCall ==
  /\ entry \in Dispatchers
  /\ pc # "idle"
  /\ ~Falsy(config.apiKey)
  /\ ~Falsy(config.model)
  /\ includes(config.model, S_slash)
  /\ NoZhipuKeyword(config.model)

\* C22: in every dispatcher a model id that contains "/" and no Zhipu
\* keyword goes to the ModelScope adapter, whatever else the model id holds
\* and whether or not a baseURL is configured; it never reaches the default
\* OpenAI-compatible path.
C22_SlashToModelScope ==
  SlashModelCall => invoked = << "modelscope" >>

\* the second video dispatcher sent "org/t2v" down the default path
C22_Witness ==
  /\ entry = "videoOther_v2"
  /\ SlashModelCall
  /\ config.model = M_org_t2v
  /\ invoked = << "default" >>
  /\ Len(http) >= 1

\* the task ids a submission answer carries
TaskIdsOf(r) == { t \in {r.id, r.task_id, r.output_task_id} : ~Falsy(t) }

\* the submission answer carries a finished video instead of a task
DirectResult(r) ==
  \E u \in {r.video_url, r.url, r.output_video_url} : ~Falsy(u)

Queries == { k \in 1..Len(http) : http[k].kind = "query" }

\* C23: on every asynchronous video path, a submission answer that carries
\* no task id (and no finished video), or that reports status FAILED, ends
\* the call with an error and without a status query; every status query
\* that is issued carries a task id of the call's own submission answer.
C23_PollNeedsTaskId ==
  (entry \in VideoDispatchers /\ Answered) =>
    /\ ((TaskIdsOf(received.submit) = { } /\ ~DirectResult(received.submit))
          \/ received.submit.status = "FAILED") =>
         /\ Queries = { }
         /\ pc = "done"
         /\ outcome.kind = "throw"
    /\ \A k \in Queries :
         \E t \in TaskIdsOf(received.submit) : includes(http[k].url, t)

\* the default path queried the status of task "undefined" after a
\* submission answer without an id
C23_Witness ==
  /\ adapter \in VideoDispatchers
  /\ Answered
  /\ TaskIdsOf(received.submit) = { }
  /\ received.submit.status = ""
  /\ \E k \in Queries : includes(http[k].url, S_undefined)

\* the provider a dispatcher selected, read off what its synchronous part did
Selected(step) ==
  IF step.invoked # << >> THEN step.invoked[1]
  ELSE IF step.outcome.kind = "throw" /\ step.outcome.err \in ConfigErrors
  THEN "configuration error"
  ELSE "none"

\* C24: for the model id and config of every call of an image dispatcher,
\* the case-sensitive variant and the case-insensitive variant select the
\* same provider (Zhipu, ModelScope, default or configuration error), and
\* the call went to that provider.
C24_VariantsAgree ==
  (entry \in ImageDispatchers /\ pc # "idle") =>
    /\ Selected(imageOther_v1(input, config))
         = Selected(imageOther_v2(input, config))
    /\ invoked = (IF entry = "imageOther_v1"
                  THEN imageOther_v1(input, config).invoked
                  ELSE imageOther_v2(input, config).invoked)

\* the case-sensitive variant sent "CogView-4" down the default path, while
\* the case-insensitive variant selects Zhipu for the same config
C24_Witness ==
  /\ entry = "imageOther_v1"
  /\ config.model = M_CogView_4
  /\ invoked = << "default" >>
  /\ Len(http) >= 1
  /\ Selected(imageOther_v2(input, config)) = "zhipu"
====
